---- MODULE Spec2Model ----
(***************************************************************************)
(* Payment data transformation and next-action resolution engine of       *)
(* crates/router/src/core/payments/transformers.rs: the request builders, *)
(* the next-action resolver, the response synthesizers and the capture    *)
(* reconciler, as a state machine over one canonical payment aggregate.   *)
(***************************************************************************)
EXTENDS Integers, Sequences, FiniteSets, TLC

VARIABLES
    payment_data,           \* PaymentData<F>: the canonical payment aggregate
    customer,               \* Option<domain::Customer>
    call,                   \* the other arguments of generate_response
    response,               \* Option<RouterResponse<PaymentsResponse>>: the last full synthesis
    session_response,       \* Option<RouterResponse<PaymentsSessionResponse>>
    verify_response,        \* Option<RouterResponse<VerifyResponse>>
    PAYMENT_OPS_COUNT,      \* metrics::PAYMENT_OPS_COUNT
    connector_name,         \* PaymentAdditionalData.connector_name
    request,                \* Option<(flow, Result<request record>)>: the last builder run
    capture_sync_response,  \* types::CaptureSyncResponse handed to the reconciler
    capture_update,         \* Option<Result<storage::CaptureUpdate>>
    merchant_connector_account, \* helpers::MerchantConnectorAccountType
    merchant_recipient_data,    \* Option<types::MerchantRecipientData>
    flow_type,              \* T of construct_payment_router_data: the flow's request type
    pc,                     \* the statement construct_payment_router_data runs next
    frame,                  \* the locals of construct_payment_router_data
    calls,                  \* the calls the constructor has made, in order, and how each ended
    router_data,            \* Option<RouterResult<types::RouterData>>: what it returned
    projected_response,     \* Option<PaymentsResponse>: the (intent, attempt) projection
    runs                    \* the constructions in flight together, each with its own state

\* the state of one run of construct_payment_router_data
constructor_vars == <<merchant_connector_account, merchant_recipient_data, flow_type, pc,
                      frame, calls, router_data>>

vars == <<payment_data, customer, call, response, session_response,
          verify_response, PAYMENT_OPS_COUNT, connector_name, request,
          capture_sync_response, capture_update, merchant_connector_account,
          merchant_recipient_data, flow_type, pc, frame, calls, router_data,
          projected_response, runs>>

\* what the other operations leave alone: the single construction, the projection
\* and the constructions in flight
untouched_vars == <<constructor_vars, projected_response, runs>>

-----------------------------------------------------------------------------
(* Bounds of the model. *)

\* largest number of keys of a connector_metadata JSON object
MaxMetaKeys == 3
\* how far beyond the pending band the reported status codes range
CodeMargin == 4
\* largest minor-unit amount
MaxAmount == 2
\* largest number of syntheses run on one aggregate
MaxOps == 2
\* largest number of elements of an order-details array
MaxOrderDetails == 2

-----------------------------------------------------------------------------
(* Option<T> and Result<T, E>. *)

None == <<>>
Some(x) == <<x>>
IsSome(o) == o # <<>>
IsNone(o) == o = <<>>
Unwrap(o) == o[1]
\* Option::or
OptOr(a, b) == IF a # <<>> THEN a ELSE b

Ok(v) == [ok |-> TRUE, val |-> v]
Err(e) == [ok |-> FALSE, err |-> e]

\* errors::ApiErrorResponse, as the transformers raise it
MissingRequiredField(f) == [error |-> "MissingRequiredField", field_name |-> f]
InvalidDataValue(f) == [error |-> "InvalidDataValue", field_name |-> f]
InternalServerError == [error |-> "InternalServerError", field_name |-> ""]
ResourceIdNotFound == [error |-> "ResourceIdNotFound", field_name |-> ""]

-----------------------------------------------------------------------------
(* serde_json::Value of payment_attempt.connector_metadata.  A JSON object *)
(* is a function from the keys it holds to their values; JsonScalar is a   *)
(* JSON value that is no object.                                           *)

MetaKeys == {"ach_credit_transfer", "reference", "image_data_url", "qr_code_url",
             "qr_code_fetch_url", "next_action", "display_from_timestamp",
             "display_to_timestamp"}
TimestampKeys == {"display_from_timestamp", "display_to_timestamp"}
\* the timestamp values a connector may report
Timestamps == {1, 2}

JsonScalar == [scalar |-> TRUE]

\* the value a key carries: a timestamp, or the URL / text stored under that key
UrlValue == [ach_credit_transfer |-> 10, reference |-> 11, image_data_url |-> 12,
             qr_code_url |-> 13, qr_code_fetch_url |-> 14, next_action |-> 15,
             display_from_timestamp |-> 0, display_to_timestamp |-> 0]

JsonObjects ==
    UNION { { [k \in S |-> IF k \in TimestampKeys THEN ts[k] ELSE UrlValue[k]] :
              ts \in [TimestampKeys -> Timestamps] } :
            S \in {T \in SUBSET MetaKeys : Cardinality(T) <= MaxMetaKeys} }

IsObject(json) == json # JsonScalar
HasKeys(json, ks) == IsObject(json) /\ ks \subseteq DOMAIN json
\* an Option<T> field of a deserialized struct
OptField(json, k) == IF k \in DOMAIN json THEN Some(json[k]) ELSE None

ParseError == Err("ParseError")

\* api_models::payments::QrCodeInformation: an enum of three shapes, the first
\* whose fields the object holds
parse_QrCodeInformation(json) ==
    IF HasKeys(json, {"image_data_url", "qr_code_url"})
    THEN Ok([variant |-> "QrCodeUrl",
             image_data_url |-> json["image_data_url"],
             qr_code_url |-> json["qr_code_url"],
             display_to_timestamp |-> OptField(json, "display_to_timestamp")])
    ELSE IF HasKeys(json, {"image_data_url"})
    THEN Ok([variant |-> "QrDataUrl",
             image_data_url |-> json["image_data_url"],
             display_to_timestamp |-> OptField(json, "display_to_timestamp")])
    ELSE IF HasKeys(json, {"qr_code_url"})
    THEN Ok([variant |-> "QrCodeImageUrl",
             qr_code_url |-> json["qr_code_url"],
             display_to_timestamp |-> OptField(json, "display_to_timestamp")])
    ELSE ParseError

\* api_models::payments::BankTransferNextStepsData
parse_BankTransferNextStepsData(json) ==
    IF HasKeys(json, {"ach_credit_transfer"})
    THEN Ok([bank_transfer_instructions |-> json["ach_credit_transfer"]])
    ELSE ParseError

\* api_models::payments::VoucherNextStepData
parse_VoucherNextStepData(json) ==
    IF HasKeys(json, {"reference"})
    THEN Ok([reference |-> json["reference"]])
    ELSE ParseError

\* api_models::payments::FetchQrCodeInformation
parse_FetchQrCodeInformation(json) ==
    IF HasKeys(json, {"qr_code_fetch_url"})
    THEN Ok([qr_code_fetch_url |-> json["qr_code_fetch_url"]])
    ELSE ParseError

\* api_models::payments::SdkNextActionData
parse_SdkNextActionData(json) ==
    IF HasKeys(json, {"next_action"})
    THEN Ok([next_action |-> json["next_action"]])
    ELSE ParseError

\* api_models::payments::WaitScreenInstructions
parse_WaitScreenInstructions(json) ==
    IF HasKeys(json, {"display_from_timestamp"})
    THEN Ok([display_from_timestamp |-> json["display_from_timestamp"],
             display_to_timestamp |-> OptField(json, "display_to_timestamp")])
    ELSE ParseError

\* Option<Result<T, E>>::transpose().ok().flatten() of a parsed Option<Value>
ParsedOrAbsent(parsed) == IF parsed.ok THEN Some(parsed.val) ELSE None

-----------------------------------------------------------------------------
(* The next-step checks: each reads payment_attempt.connector_metadata and *)
(* returns RouterResult<Option<shape>>.                                    *)

qr_code_next_steps_check(payment_attempt) ==
    IF IsNone(payment_attempt.connector_metadata) THEN Ok(None)
    ELSE Ok(ParsedOrAbsent(parse_QrCodeInformation(Unwrap(payment_attempt.connector_metadata))))

paypal_sdk_next_steps_check(payment_attempt) ==
    IF IsNone(payment_attempt.connector_metadata) THEN Ok(None)
    ELSE Ok(ParsedOrAbsent(parse_SdkNextActionData(Unwrap(payment_attempt.connector_metadata))))

fetch_qr_code_url_next_steps_check(payment_attempt) ==
    IF IsNone(payment_attempt.connector_metadata) THEN Ok(None)
    ELSE Ok(ParsedOrAbsent(parse_FetchQrCodeInformation(Unwrap(payment_attempt.connector_metadata))))

wait_screen_next_steps_check(payment_attempt) ==
    IF IsNone(payment_attempt.connector_metadata) THEN Ok(None)
    ELSE Ok(ParsedOrAbsent(parse_WaitScreenInstructions(Unwrap(payment_attempt.connector_metadata))))

bank_transfer_next_steps_check_with_pix(payment_attempt) ==
    IF payment_attempt.payment_method = Some("BankTransfer")
    THEN IF IsNone(payment_attempt.connector_metadata) THEN Ok(None)
         ELSE LET parsed == parse_BankTransferNextStepsData(
                                Unwrap(payment_attempt.connector_metadata))
              IN  IF parsed.ok THEN Ok(Some(parsed.val)) ELSE Err(InternalServerError)
    ELSE Ok(None)

\* the metadata is parsed with `?`: a failure is InternalServerError
bank_transfer_next_steps_check(payment_attempt) ==
    IF payment_attempt.payment_method = Some("BankTransfer")
    THEN IF payment_attempt.payment_method_type # Some("Pix")
         THEN IF IsNone(payment_attempt.connector_metadata) THEN Ok(None)
              ELSE LET parsed == parse_BankTransferNextStepsData(
                                     Unwrap(payment_attempt.connector_metadata))
                   IN  IF parsed.ok THEN Ok(Some(parsed.val)) ELSE Err(InternalServerError)
         ELSE Ok(None)
    ELSE Ok(None)

voucher_next_steps_check(payment_attempt) ==
    IF payment_attempt.payment_method = Some("Voucher")
    THEN IF IsNone(payment_attempt.connector_metadata) THEN Ok(None)
         ELSE LET parsed == parse_VoucherNextStepData(
                                Unwrap(payment_attempt.connector_metadata))
              IN  IF parsed.ok THEN Ok(Some(parsed.val)) ELSE Err(InternalServerError)
    ELSE Ok(None)

NextActionData_foreign_from_no_timestamp(qr_info) ==
    IF qr_info.variant = "QrCodeUrl"
    THEN [type |-> "QrCodeInformation",
          image_data_url |-> Some(qr_info.image_data_url),
          qr_code_url |-> Some(qr_info.qr_code_url),
          display_to_timestamp |-> qr_info.display_to_timestamp]
    ELSE IF qr_info.variant = "QrDataUrl"
    THEN [type |-> "QrCodeInformation",
          image_data_url |-> Some(qr_info.image_data_url),
          qr_code_url |-> None,
          display_to_timestamp |-> None]
    ELSE [type |-> "QrCodeInformation",
          image_data_url |-> None,
          qr_code_url |-> Some(qr_info.qr_code_url),
          display_to_timestamp |-> qr_info.display_to_timestamp]

\* ForeignFrom<QrCodeInformation> for NextActionData
NextActionData_foreign_from(qr_info) ==
    IF qr_info.variant = "QrCodeUrl"
    THEN [type |-> "QrCodeInformation",
          image_data_url |-> Some(qr_info.image_data_url),
          qr_code_url |-> Some(qr_info.qr_code_url),
          display_to_timestamp |-> qr_info.display_to_timestamp]
    ELSE IF qr_info.variant = "QrDataUrl"
    THEN [type |-> "QrCodeInformation",
          image_data_url |-> Some(qr_info.image_data_url),
          qr_code_url |-> None,
          display_to_timestamp |-> qr_info.display_to_timestamp]
    ELSE [type |-> "QrCodeInformation",
          image_data_url |-> None,
          qr_code_url |-> Some(qr_info.qr_code_url),
          display_to_timestamp |-> qr_info.display_to_timestamp]

third_party_sdk_session_next_action_any_method(payment_attempt, operation) ==
    IF operation = "PaymentConfirm"
    THEN LET connector == payment_attempt.connector
         IN  IF IsNone(connector) THEN FALSE
             ELSE Unwrap(connector) \in {"trustpay", "payme", "plaid"}
    ELSE FALSE

\* whether the session token replaces the resolved next action
third_party_sdk_session_next_action(payment_attempt, operation) ==
    IF operation = "PaymentConfirm"
    THEN LET connector == payment_attempt.connector
             condition1 ==
                 IF IsNone(connector) THEN FALSE
                 ELSE IF Unwrap(connector) = "trustpay" \/ Unwrap(connector) = "payme"
                      THEN IF IsNone(payment_attempt.payment_method) THEN FALSE
                           ELSE Unwrap(payment_attempt.payment_method) = "Wallet"
                      ELSE FALSE
             condition2 ==
                 IF IsNone(connector) THEN FALSE
                 ELSE IF Unwrap(connector) = "plaid"
                      THEN IF IsNone(payment_attempt.payment_method) THEN FALSE
                           ELSE IF IsNone(payment_attempt.payment_method_type) THEN FALSE
                           ELSE Unwrap(payment_attempt.payment_method) = "OpenBanking"
                                /\ Unwrap(payment_attempt.payment_method_type) = "OpenBankingPIS"
                      ELSE FALSE
         IN  condition1 \/ condition2
    ELSE FALSE

-----------------------------------------------------------------------------
(* Helpers of other modules of the router that the synthesizer calls.      *)

\* payments::is_start_pay
is_start_pay(operation) == operation = "PaymentStart"

\* a typed struct read from an opaque JSON value (RedirectForm,
\* AdditionalPaymentData, PaymentChargeRequest, CustomerData, BrowserInformation)
parse_struct(json) == IF IsObject(json) THEN Ok(json) ELSE ParseError

\* helpers::create_startpay_url
create_startpay_url(base_url, payment_attempt, payment_intent) ==
    <<base_url, "payments/redirect", payment_intent.payment_id,
      payment_intent.merchant_id, payment_attempt.attempt_id>>

\* helpers::create_authentication_url
create_authentication_url(base_url, payment_attempt) ==
    <<base_url, "payments", payment_attempt.payment_id, "3ds/authentication">>

\* helpers::create_authorize_url
create_authorize_url(base_url, payment_attempt, connector) ==
    <<base_url, "payments", payment_attempt.payment_id, payment_attempt.merchant_id,
      "authorize", connector>>

\* core_utils::get_external_authentication_request_poll_id
get_external_authentication_request_poll_id(payment_id) ==
    <<"external_authentication", payment_id>>

\* storage::Authentication::is_separate_authn_required
is_separate_authn_required(authentication) == authentication.separate_authn_required

\* ForeignFrom<&domain::Customer> for CustomerDetailsResponse
customer_table_response(cust) ==
    IF IsNone(cust) THEN None
    ELSE Some([id |-> Some(Unwrap(cust).customer_id),
               name |-> Unwrap(cust).name,
               email |-> Unwrap(cust).email,
               phone |-> Unwrap(cust).phone,
               phone_country_code |-> Unwrap(cust).phone_country_code])

\* a field of Option<&Customer>: customer.as_ref().and_then(|c| c.field)
CustomerField(cust, f) == IF IsNone(cust) THEN None ELSE Unwrap(cust)[f]

-----------------------------------------------------------------------------
(* payments_to_payments_response and its parts.                            *)

customer_details_response_table_first(payment_intent, cust) ==
    IF IsSome(payment_intent.customer_details)
    THEN LET customer_details_encrypted ==
                 parse_struct(Unwrap(payment_intent.customer_details))
         IN  IF customer_details_encrypted.ok
             THEN LET data == customer_details_encrypted.val
                      table == customer_table_response(cust)
                  IN  Some([id |-> IF IsNone(table) THEN None ELSE Unwrap(table).id,
                            name |-> OptOr(CustomerField(cust, "name"), OptField(data, "name")),
                            email |-> OptOr(CustomerField(cust, "email"),
                                            OptField(data, "email")),
                            phone |-> OptOr(CustomerField(cust, "phone"),
                                            OptField(data, "phone")),
                            phone_country_code |->
                                OptOr(CustomerField(cust, "phone_country_code"),
                                      OptField(data, "phone_country_code"))])
             ELSE customer_table_response(cust)
    ELSE customer_table_response(cust)

\* the customer projection of the full response
customer_details_response(payment_intent, cust) ==
    IF IsSome(payment_intent.customer_details)
    THEN LET customer_details_encrypted ==
                 parse_struct(Unwrap(payment_intent.customer_details))
         IN  IF customer_details_encrypted.ok
             THEN LET data == customer_details_encrypted.val
                      table == customer_table_response(cust)
                  IN  Some([id |-> IF IsNone(table) THEN None ELSE Unwrap(table).id,
                            name |-> OptOr(OptField(data, "name"), CustomerField(cust, "name")),
                            email |-> OptOr(OptField(data, "email"),
                                            CustomerField(cust, "email")),
                            phone |-> OptOr(OptField(data, "phone"),
                                            CustomerField(cust, "phone")),
                            phone_country_code |->
                                OptOr(OptField(data, "phone_country_code"),
                                      CustomerField(cust, "phone_country_code"))])
             ELSE customer_table_response(cust)
    ELSE customer_table_response(cust)

\* u16::to_string / u128::to_string: the decimal rendering of a header value
to_string(n) == <<"decimal", n>>

response_headers_counting(connector_http_status_code, payment_confirm_source, external_latency) ==
    <<[key |-> "x-hs-request-count", value |-> to_string(PAYMENT_OPS_COUNT)]>>

response_headers_latency_first(connector_http_status_code, payment_confirm_source, external_latency) ==
    (IF IsSome(external_latency)
     THEN <<[key |-> "x-hs-latency", value |-> to_string(Unwrap(external_latency))]>>
     ELSE <<>>)
    \o (IF IsSome(connector_http_status_code)
        THEN <<[key |-> "connector_http_status_code",
                value |-> to_string(Unwrap(connector_http_status_code))]>>
        ELSE <<>>)
    \o (IF IsSome(payment_confirm_source)
        THEN <<[key |-> "payment_confirm_source",
                value |-> Unwrap(payment_confirm_source)]>>
        ELSE <<>>)

\* the header list: status code, then confirm source, then latency
response_headers(connector_http_status_code, payment_confirm_source, external_latency) ==
    (IF IsSome(connector_http_status_code)
     THEN <<[key |-> "connector_http_status_code",
             value |-> to_string(Unwrap(connector_http_status_code))]>>
     ELSE <<>>)
    \o (IF IsSome(payment_confirm_source)
        THEN <<[key |-> "payment_confirm_source",
                value |-> Unwrap(payment_confirm_source)]>>
        ELSE <<>>)
    \o (IF IsSome(external_latency)
        THEN <<[key |-> "x-hs-latency", value |-> to_string(Unwrap(external_latency))]>>
        ELSE <<>>)

three_ds_invoke_either(pd, base_url) ==
    IF IsNone(pd.authentication) THEN Ok(None)
    ELSE LET authentication == Unwrap(pd.authentication)
             payment_attempt == pd.payment_attempt
         IN  IF pd.payment_intent.status = "RequiresCustomerAction"
                /\ IsNone(authentication.cavv)
                /\ is_separate_authn_required(authentication)
             THEN IF IsNone(payment_attempt.connector)
                  THEN Err(MissingRequiredField("connector"))
                  ELSE Ok(Some(
                    [type |-> "ThreeDsInvoke",
                     three_ds_authentication_url |->
                         create_authentication_url(base_url, payment_attempt),
                     three_ds_authorize_url |->
                         create_authorize_url(base_url, payment_attempt,
                                              Unwrap(payment_attempt.connector)),
                     three_ds_method_details |->
                         IF IsSome(authentication.three_ds_method_url)
                            \/ IsSome(authentication.three_ds_method_data)
                         THEN [three_ds_method_data_submission |-> TRUE,
                               three_ds_method_data |-> authentication.three_ds_method_data,
                               three_ds_method_url |-> authentication.three_ds_method_url]
                         ELSE [three_ds_method_data_submission |-> FALSE,
                               three_ds_method_data |-> None,
                               three_ds_method_url |-> None],
                     poll_id |->
                         get_external_authentication_request_poll_id(
                             pd.payment_intent.payment_id)]))
             ELSE Ok(None)

\* the three-DS-invoke candidate, evaluated as the last argument of the chain
three_ds_invoke(pd, base_url) ==
    IF IsNone(pd.authentication) THEN Ok(None)
    ELSE LET authentication == Unwrap(pd.authentication)
             payment_attempt == pd.payment_attempt
         IN  IF pd.payment_intent.status = "RequiresCustomerAction"
                /\ IsNone(authentication.cavv)
                /\ is_separate_authn_required(authentication)
             THEN IF IsNone(payment_attempt.connector)
                  THEN Err(MissingRequiredField("connector"))
                  ELSE Ok(Some(
                    [type |-> "ThreeDsInvoke",
                     three_ds_authentication_url |->
                         create_authentication_url(base_url, payment_attempt),
                     three_ds_authorize_url |->
                         create_authorize_url(base_url, payment_attempt,
                                              Unwrap(payment_attempt.connector)),
                     three_ds_method_details |->
                         IF IsSome(authentication.three_ds_method_url)
                            /\ IsSome(authentication.three_ds_method_data)
                         THEN [three_ds_method_data_submission |-> TRUE,
                               three_ds_method_data |-> authentication.three_ds_method_data,
                               three_ds_method_url |-> authentication.three_ds_method_url]
                         ELSE [three_ds_method_data_submission |-> FALSE,
                               three_ds_method_data |-> None,
                               three_ds_method_url |-> None],
                     poll_id |->
                         get_external_authentication_request_poll_id(
                             pd.payment_intent.payment_id)]))
             ELSE Ok(None)

\* the chain of Option::or over the candidates, first present first
next_action_chain_qr_first(bank_transfer, voucher, qr, fetch_qr, paypal, wait_screen, redirect, three_ds) ==
    OptOr(bank_transfer, OptOr(qr, OptOr(voucher, OptOr(fetch_qr, OptOr(paypal,
          OptOr(wait_screen, OptOr(redirect, three_ds)))))))

next_action_chain(bank_transfer, voucher, qr, fetch_qr, paypal, wait_screen, redirect, three_ds) ==
    OptOr(bank_transfer, OptOr(voucher, OptOr(qr, OptOr(fetch_qr, OptOr(paypal,
          OptOr(wait_screen, OptOr(redirect, three_ds)))))))

\* Option::map of each candidate into its NextActionData variant
BankTransferAction(c) ==
    IF IsNone(c) THEN None
    ELSE Some([type |-> "DisplayBankTransferInformation",
               bank_transfer_steps_and_charges_details |-> Unwrap(c)])
VoucherAction(c) ==
    IF IsNone(c) THEN None
    ELSE Some([type |-> "DisplayVoucherInformation", voucher_details |-> Unwrap(c)])
QrAction(c) == IF IsNone(c) THEN None ELSE Some(NextActionData_foreign_from(Unwrap(c)))
FetchQrAction(c) ==
    IF IsNone(c) THEN None
    ELSE Some([type |-> "FetchQrCodeInformation",
               qr_code_fetch_url |-> Unwrap(c).qr_code_fetch_url])
PaypalAction(c) ==
    IF IsNone(c) THEN None
    ELSE Some([type |-> "InvokeSdkClient", next_action_data |-> Unwrap(c)])
WaitScreenAction(c) ==
    IF IsNone(c) THEN None
    ELSE Some([type |-> "WaitScreenInformation",
               display_from_timestamp |-> Unwrap(c).display_from_timestamp,
               display_to_timestamp |-> Unwrap(c).display_to_timestamp])
RedirectAction(pd, base_url) ==
    IF IsNone(pd.payment_attempt.authentication_data) THEN None
    ELSE Some([type |-> "RedirectToUrl",
               redirect_to_url |->
                   create_startpay_url(base_url, pd.payment_attempt, pd.payment_intent)])

\* the evaluation gate of the chain
next_action_gate(pd, bank_transfer, voucher, qr, wait_screen, paypal, fetch_qr) ==
    \/ pd.payment_intent.status = "RequiresCustomerAction"
    \/ IsSome(bank_transfer)
    \/ IsSome(voucher)
    \/ IsSome(qr)
    \/ IsSome(wait_screen)
    \/ IsSome(paypal)
    \/ IsSome(fetch_qr)
    \/ IsSome(pd.authentication)

\* the session-token action that replaces the chain's result
ThirdPartySdkSessionToken(pd) ==
    [type |-> "ThirdPartySdkSessionToken",
     session_token |-> IF pd.sessions_token = <<>> THEN None
                       ELSE Some(Head(pd.sessions_token))]

third_party_sdk_override_on_confirm(next_action, pd, operation) ==
    IF operation = "PaymentConfirm" THEN Some(ThirdPartySdkSessionToken(pd))
    ELSE next_action

\* the override: let next_action = if third_party_sdk_session_next_action(..) { .. }
third_party_sdk_override(next_action, pd, operation) ==
    IF third_party_sdk_session_next_action(pd.payment_attempt, operation)
    THEN Some(ThirdPartySdkSessionToken(pd))
    ELSE next_action

\* the next action of the JSON path: RouterResult<Option<NextActionData>>
next_action_response(pd, operation, base_url) ==
    LET payment_attempt == pd.payment_attempt
        bank_transfer_next_steps == bank_transfer_next_steps_check(payment_attempt)
        next_action_voucher == voucher_next_steps_check(payment_attempt)
        next_action_containing_qr_code_url == qr_code_next_steps_check(payment_attempt)
        papal_sdk_next_action == paypal_sdk_next_steps_check(payment_attempt)
        next_action_containing_fetch_qr_code_url ==
            fetch_qr_code_url_next_steps_check(payment_attempt)
        next_action_containing_wait_screen == wait_screen_next_steps_check(payment_attempt)
    IN  IF ~bank_transfer_next_steps.ok THEN bank_transfer_next_steps
        ELSE IF ~next_action_voucher.ok THEN next_action_voucher
        ELSE IF next_action_gate(pd, bank_transfer_next_steps.val, next_action_voucher.val,
                                 next_action_containing_qr_code_url.val,
                                 next_action_containing_wait_screen.val,
                                 papal_sdk_next_action.val,
                                 next_action_containing_fetch_qr_code_url.val)
        THEN LET three_ds == three_ds_invoke(pd, base_url)
             IN  IF ~three_ds.ok THEN three_ds
                 ELSE Ok(third_party_sdk_override(
                        next_action_chain(
                            BankTransferAction(bank_transfer_next_steps.val),
                            VoucherAction(next_action_voucher.val),
                            QrAction(next_action_containing_qr_code_url.val),
                            FetchQrAction(next_action_containing_fetch_qr_code_url.val),
                            PaypalAction(papal_sdk_next_action.val),
                            WaitScreenAction(next_action_containing_wait_screen.val),
                            RedirectAction(pd, base_url),
                            three_ds.val),
                        pd, operation))
        ELSE Ok(third_party_sdk_override(None, pd, operation))

\* Currency::to_currency_base_unit: the amount in the currency's base unit
to_currency_base_unit(currency, amount) == <<"base_unit", currency, amount>>

\* the charges projection of the JSON path
charges_response(payment_intent, payment_attempt) ==
    IF IsNone(payment_intent.charges) THEN Ok(None)
    ELSE LET payment_charges == parse_struct(Unwrap(payment_intent.charges))
         IN  IF payment_charges.ok
             THEN Ok(Some([charge_id |-> payment_attempt.charge_id,
                           charge |-> payment_charges.val]))
             ELSE Err(InternalServerError)

payments_to_payments_response_missing_form(pd, cust, operation, base_url, connector_http_status_code, external_latency, is_latency_header_enabled) ==
    LET payment_attempt == pd.payment_attempt
        payment_intent == pd.payment_intent
    IN  IF IsNone(payment_attempt.currency) THEN Err(MissingRequiredField("currency"))
        ELSE IF IsSome(payment_attempt.payment_method_data)
                /\ ~parse_struct(Unwrap(payment_attempt.payment_method_data)).ok
        THEN Err(InvalidDataValue("payment_method_data"))
        ELSE
        LET currency == Unwrap(payment_attempt.currency)
            amount == to_currency_base_unit(currency, payment_attempt.amount)
            headers == response_headers(connector_http_status_code,
                                        payment_intent.payment_confirm_source,
                                        external_latency)
        IN  IF is_start_pay(operation) /\ IsSome(payment_attempt.authentication_data)
            THEN LET form == parse_struct(Unwrap(payment_attempt.authentication_data))
                 IN  IF ~form.ok THEN Err(MissingRequiredField("redirection_data"))
                     ELSE Ok([kind |-> "Form",
                              redirect_form |-> form.val,
                              payment_method_data |-> pd.payment_method_data,
                              amount |-> amount,
                              currency |-> currency])
            ELSE LET next_action == next_action_response(pd, operation, base_url)
                     charges == charges_response(payment_intent, payment_attempt)
                 IN  IF ~next_action.ok THEN next_action
                     ELSE IF ~charges.ok THEN charges
                     ELSE Ok([kind |-> "JsonWithHeaders",
                              body |->
                                [payment_id |-> Some(payment_attempt.payment_id),
                                 merchant_id |-> Some(payment_attempt.merchant_id),
                                 status |-> payment_intent.status,
                                 amount |-> payment_attempt.amount,
                                 amount_capturable |-> Some(payment_attempt.amount_capturable),
                                 amount_received |-> payment_intent.amount_captured,
                                 connector |-> payment_attempt.connector,
                                 currency |-> currency,
                                 customer_id |-> IF IsNone(cust) THEN None
                                                 ELSE Some(Unwrap(cust).customer_id),
                                 email |-> CustomerField(cust, "email"),
                                 name |-> CustomerField(cust, "name"),
                                 phone |-> CustomerField(cust, "phone"),
                                 payment_method |-> payment_attempt.payment_method,
                                 payment_method_type |-> payment_attempt.payment_method_type,
                                 next_action |-> next_action.val,
                                 customer |-> customer_details_response(payment_intent, cust),
                                 charges |-> charges.val],
                              headers |-> headers])

\* payments_to_payments_response: the full payment response
payments_to_payments_response(pd, cust, operation, base_url, connector_http_status_code, external_latency, is_latency_header_enabled) ==
    LET payment_attempt == pd.payment_attempt
        payment_intent == pd.payment_intent
    IN  IF IsNone(payment_attempt.currency) THEN Err(MissingRequiredField("currency"))
        ELSE IF IsSome(payment_attempt.payment_method_data)
                /\ ~parse_struct(Unwrap(payment_attempt.payment_method_data)).ok
        THEN Err(InvalidDataValue("payment_method_data"))
        ELSE
        LET currency == Unwrap(payment_attempt.currency)
            amount == to_currency_base_unit(currency, payment_attempt.amount)
            headers == response_headers(connector_http_status_code,
                                        payment_intent.payment_confirm_source,
                                        external_latency)
        IN  IF is_start_pay(operation) /\ IsSome(payment_attempt.authentication_data)
            THEN LET form == parse_struct(Unwrap(payment_attempt.authentication_data))
                 IN  IF ~form.ok THEN Err(InternalServerError)
                     ELSE Ok([kind |-> "Form",
                              redirect_form |-> form.val,
                              payment_method_data |-> pd.payment_method_data,
                              amount |-> amount,
                              currency |-> currency])
            ELSE LET next_action == next_action_response(pd, operation, base_url)
                     charges == charges_response(payment_intent, payment_attempt)
                 IN  IF ~next_action.ok THEN next_action
                     ELSE IF ~charges.ok THEN charges
                     ELSE Ok([kind |-> "JsonWithHeaders",
                              body |->
                                [payment_id |-> Some(payment_attempt.payment_id),
                                 merchant_id |-> Some(payment_attempt.merchant_id),
                                 status |-> payment_intent.status,
                                 amount |-> payment_attempt.amount,
                                 amount_capturable |-> Some(payment_attempt.amount_capturable),
                                 amount_received |-> payment_intent.amount_captured,
                                 connector |-> payment_attempt.connector,
                                 currency |-> currency,
                                 customer_id |-> IF IsNone(cust) THEN None
                                                 ELSE Some(Unwrap(cust).customer_id),
                                 email |-> CustomerField(cust, "email"),
                                 name |-> CustomerField(cust, "name"),
                                 phone |-> CustomerField(cust, "phone"),
                                 payment_method |-> payment_attempt.payment_method,
                                 payment_method_type |-> payment_attempt.payment_method_type,
                                 next_action |-> next_action.val,
                                 customer |-> customer_details_response(payment_intent, cust),
                                 charges |-> charges.val],
                              headers |-> headers])

\* ForeignFrom<(PaymentIntent, PaymentAttempt)> for PaymentsResponse, the fields
\* the aggregate of this model carries
PaymentsResponse_foreign_from(pi, pa) ==
    [payment_id |-> Some(pi.payment_id),
     merchant_id |-> Some(pi.merchant_id),
     status |-> pi.status,
     amount_capturable |-> pi.amount_captured,
     client_secret |-> pi.client_secret,
     metadata |-> pi.metadata,
     order_details |-> pi.order_details,
     connector |-> pa.connector,
     payment_method |-> pa.payment_method,
     payment_method_type |-> pa.payment_method_type,
     connector_transaction_id |-> pa.connector_transaction_id,
     payment_method_data |->
         IF IsNone(pa.payment_method_data) THEN None
         ELSE ParsedOrAbsent(parse_struct(Unwrap(pa.payment_method_data))),
     customer |->
         IF IsNone(pi.customer_details) THEN None
         ELSE LET parsed_data == parse_struct(Unwrap(pi.customer_details))
              IN  IF parsed_data.ok
                  THEN Some([name |-> OptField(parsed_data.val, "name"),
                             phone |-> OptField(parsed_data.val, "phone"),
                             email |-> OptField(parsed_data.val, "email"),
                             phone_country_code |->
                                 OptField(parsed_data.val, "phone_country_code")])
                  ELSE None]

\* ToResponse for PaymentsSessionResponse
session_generate_response(pd) ==
    IF IsNone(pd.payment_intent.client_secret)
    THEN Err(MissingRequiredField("client_secret"))
    ELSE Ok([kind |-> "JsonWithHeaders",
             body |-> [session_token |-> pd.sessions_token,
                       payment_id |-> pd.payment_attempt.payment_id,
                       client_secret |-> Unwrap(pd.payment_intent.client_secret)],
             headers |-> <<>>])

\* ToResponse for VerifyResponse
verify_generate_response(pd, cust) ==
    IF IsSome(pd.payment_attempt.payment_method_data)
       /\ ~parse_struct(Unwrap(pd.payment_attempt.payment_method_data)).ok
    THEN Err(InvalidDataValue("payment_method_data"))
    ELSE Ok([kind |-> "JsonWithHeaders",
             body |-> [verify_id |-> Some(pd.payment_intent.payment_id),
                       merchant_id |-> Some(pd.payment_intent.merchant_id),
                       client_secret |-> pd.payment_intent.client_secret,
                       customer_id |-> IF IsNone(cust) THEN None
                                       ELSE Some(Unwrap(cust).customer_id),
                       email |-> CustomerField(cust, "email"),
                       name |-> CustomerField(cust, "name"),
                       phone |-> CustomerField(cust, "phone"),
                       mandate_id |-> pd.mandate_id,
                       payment_method |-> pd.payment_attempt.payment_method,
                       payment_method_data |-> pd.payment_attempt.payment_method_data,
                       error_code |-> pd.payment_attempt.error_code,
                       error_message |-> pd.payment_attempt.error_message],
             headers |-> <<>>])

-----------------------------------------------------------------------------
(* The request builders: TryFrom<PaymentAdditionalData> for each flow's    *)
(* request type.                                                           *)

\* the amount derived from the surcharge when there is one
surcharge_or_amount(pd) ==
    IF IsSome(pd.surcharge_details) THEN Unwrap(pd.surcharge_details).final_amount
    ELSE pd.amount

browser_info_of_silent(payment_attempt) ==
    IF IsNone(payment_attempt.browser_info) THEN Ok(None)
    ELSE LET parsed == parse_struct(Unwrap(payment_attempt.browser_info))
         IN  IF parsed.ok THEN Ok(Some(parsed.val)) ELSE Ok(None)

\* attempt.browser_info parsed into BrowserInformation
browser_info_of(payment_attempt) ==
    IF IsNone(payment_attempt.browser_info) THEN Ok(None)
    ELSE LET parsed == parse_struct(Unwrap(payment_attempt.browser_info))
         IN  IF parsed.ok THEN Ok(Some(parsed.val))
             ELSE Err(InvalidDataValue("browser_info"))

\* Iterator::collect::<Result<Vec<_>, _>>() over the parsed elements
RECURSIVE collect_order_details(_)
collect_order_details(items) ==
    IF items = <<>> THEN Ok(<<>>)
    ELSE LET parsed == parse_struct(Head(items))
         IN  IF ~parsed.ok THEN Err(InvalidDataValue("OrderDetailsWithAmount"))
             ELSE LET rest == collect_order_details(Tail(items))
                  IN  IF rest.ok THEN Ok(<<parsed.val>> \o rest.val) ELSE rest

order_details_of_partial(payment_intent) ==
    IF IsNone(payment_intent.order_details) THEN Ok(None)
    ELSE Ok(Some(SelectSeq(Unwrap(payment_intent.order_details), IsObject)))

\* intent.order_details parsed element by element into OrderDetailsWithAmount
order_details_of(payment_intent) ==
    IF IsNone(payment_intent.order_details) THEN Ok(None)
    ELSE LET all == collect_order_details(Unwrap(payment_intent.order_details))
         IN  IF all.ok THEN Ok(Some(all.val)) ELSE all

\* api::ConnectorData::get_connector_by_name
KnownConnectors == {"stripe", "helcim", "nexinets", "trustpay", "payme", "plaid"}
get_connector_by_name(name) ==
    IF name \in KnownConnectors THEN Ok(name) ELSE Err(InternalServerError)

\* the connector's own reading of its metadata (Helcim, Nexinets)
metadata_transaction_id(connector_metadata, key) ==
    IF IsNone(connector_metadata) THEN Err("ConnectorError")
    ELSE IF ~IsObject(Unwrap(connector_metadata)) THEN Err("ConnectorError")
    ELSE IF key = "preauth_transaction_id"
         THEN IF key \in DOMAIN Unwrap(connector_metadata)
              THEN Ok(Some(Unwrap(connector_metadata)[key]))
              ELSE Err("ConnectorError")
         ELSE Ok(OptField(Unwrap(connector_metadata), key))

\* ConnectorTransactionId for Helcim
Helcim_connector_transaction_id(payment_attempt) ==
    IF IsNone(payment_attempt.connector_transaction_id)
    THEN LET metadata == metadata_transaction_id(payment_attempt.connector_metadata,
                                                 "preauth_transaction_id")
         IN  IF metadata.ok THEN metadata ELSE Err(ResourceIdNotFound)
    ELSE Ok(payment_attempt.connector_transaction_id)

\* ConnectorTransactionId for Nexinets
Nexinets_connector_transaction_id(payment_attempt) ==
    LET metadata == metadata_transaction_id(payment_attempt.connector_metadata,
                                            "transaction_id")
    IN  IF metadata.ok THEN metadata ELSE Err(ResourceIdNotFound)

\* the trait's dispatch on the connector; the default reads the attempt's field
connector_transaction_id(connector, payment_attempt) ==
    IF connector = "helcim" THEN Helcim_connector_transaction_id(payment_attempt)
    ELSE IF connector = "nexinets" THEN Nexinets_connector_transaction_id(payment_attempt)
    ELSE Ok(payment_attempt.connector_transaction_id)

required_connector_transaction_id_or_default(connector, payment_attempt) ==
    LET id == connector_transaction_id(connector, payment_attempt)
    IN  IF ~id.ok THEN id
        ELSE IF IsNone(id.val) THEN Ok("")
        ELSE Ok(Unwrap(id.val))

\* .connector_transaction_id(attempt)?.ok_or(ResourceIdNotFound)?
required_connector_transaction_id(connector, payment_attempt) ==
    LET id == connector_transaction_id(connector, payment_attempt)
    IN  IF ~id.ok THEN id
        ELSE IF IsNone(id.val) THEN Err(ResourceIdNotFound)
        ELSE Ok(Unwrap(id.val))

\* AuthenticationData::foreign_try_from(&storage::Authentication)
AuthenticationData_foreign_try_from(authentication) ==
    IF authentication.authentication_status = "Success"
    THEN IF IsNone(authentication.cavv) THEN Err(InternalServerError)
         ELSE Ok([cavv |-> Unwrap(authentication.cavv)])
    ELSE Err([error |-> "PaymentAuthenticationFailed", field_name |-> ""])

\* off_session: payment_data.mandate_id.as_ref().map(|_| true)
off_session_of(pd) == IF IsSome(pd.mandate_id) THEN Some(TRUE) ELSE None

PaymentsAuthorizeData_try_from_no_default(pd, conn) ==
    LET browser_info == browser_info_of(pd.payment_attempt)
        order_category == IF IsNone(pd.payment_intent.connector_metadata) THEN Ok(None)
                          ELSE parse_struct(Unwrap(pd.payment_intent.connector_metadata))
        order_details == order_details_of(pd.payment_intent)
        payment_method_data ==
            pd.payment_method_data
        amount == surcharge_or_amount(pd)
        charges == IF IsNone(pd.payment_intent.charges) THEN Ok(None)
                   ELSE parse_struct(Unwrap(pd.payment_intent.charges))
        authentication_data ==
            IF IsNone(pd.authentication) THEN Ok(None)
            ELSE LET a == AuthenticationData_foreign_try_from(Unwrap(pd.authentication))
                 IN  IF a.ok THEN Ok(Some(a.val)) ELSE a
    IN  IF ~browser_info.ok THEN browser_info
        ELSE IF ~order_category.ok THEN Err(InternalServerError)
        ELSE IF ~order_details.ok THEN order_details
        ELSE IF ~charges.ok THEN Err(InternalServerError)
        ELSE IF IsNone(payment_method_data)
        THEN Err(MissingRequiredField("payment_method_data"))
        ELSE IF ~authentication_data.ok THEN authentication_data
        ELSE Ok([flow |-> "Authorize",
                 payment_method_data |-> Unwrap(payment_method_data),
                 mandate_id |-> pd.mandate_id,
                 off_session |-> off_session_of(pd),
                 amount |-> amount,
                 minor_amount |-> amount,
                 currency |-> pd.currency,
                 browser_info |-> browser_info.val,
                 order_details |-> order_details.val,
                 surcharge_details |-> pd.surcharge_details,
                 metadata |-> pd.payment_intent.metadata])

\* TryFrom<PaymentAdditionalData> for PaymentsAuthorizeData
PaymentsAuthorizeData_try_from(pd, conn) ==
    LET browser_info == browser_info_of(pd.payment_attempt)
        order_category == IF IsNone(pd.payment_intent.connector_metadata) THEN Ok(None)
                          ELSE parse_struct(Unwrap(pd.payment_intent.connector_metadata))
        order_details == order_details_of(pd.payment_intent)
        payment_method_data ==
            IF IsSome(pd.payment_method_data) THEN pd.payment_method_data
            ELSE IF IsSome(pd.mandate_id) THEN Some("MandatePayment") ELSE None
        amount == surcharge_or_amount(pd)
        charges == IF IsNone(pd.payment_intent.charges) THEN Ok(None)
                   ELSE parse_struct(Unwrap(pd.payment_intent.charges))
        authentication_data ==
            IF IsNone(pd.authentication) THEN Ok(None)
            ELSE LET a == AuthenticationData_foreign_try_from(Unwrap(pd.authentication))
                 IN  IF a.ok THEN Ok(Some(a.val)) ELSE a
    IN  IF ~browser_info.ok THEN browser_info
        ELSE IF ~order_category.ok THEN Err(InternalServerError)
        ELSE IF ~order_details.ok THEN order_details
        ELSE IF ~charges.ok THEN Err(InternalServerError)
        ELSE IF IsNone(payment_method_data)
        THEN Err(MissingRequiredField("payment_method_data"))
        ELSE IF ~authentication_data.ok THEN authentication_data
        ELSE Ok([flow |-> "Authorize",
                 payment_method_data |-> Unwrap(payment_method_data),
                 mandate_id |-> pd.mandate_id,
                 off_session |-> off_session_of(pd),
                 amount |-> amount,
                 minor_amount |-> amount,
                 currency |-> pd.currency,
                 browser_info |-> browser_info.val,
                 order_details |-> order_details.val,
                 surcharge_details |-> pd.surcharge_details,
                 metadata |-> pd.payment_intent.metadata])

\* TryFrom<PaymentAdditionalData> for PaymentsSyncData
PaymentsSyncData_try_from(pd, conn) ==
    Ok([flow |-> "PSync",
        amount |-> surcharge_or_amount(pd),
        mandate_id |-> pd.mandate_id,
        connector_transaction_id |->
            IF IsSome(pd.payment_attempt.connector_transaction_id)
            THEN [ConnectorTransactionId |->
                      Unwrap(pd.payment_attempt.connector_transaction_id)]
            ELSE [NoResponseId |-> TRUE],
        connector_meta |-> pd.payment_attempt.connector_metadata,
        currency |-> pd.currency])

\* TryFrom<PaymentAdditionalData> for PaymentsIncrementalAuthorizationData
PaymentsIncrementalAuthorizationData_try_from(pd, conn) ==
    LET connector == get_connector_by_name(conn)
    IN  IF ~connector.ok THEN connector
        ELSE IF IsNone(pd.incremental_authorization_details) THEN Err(InternalServerError)
        ELSE LET id == required_connector_transaction_id(connector.val, pd.payment_attempt)
             IN  IF ~id.ok THEN id
                 ELSE Ok([flow |-> "IncrementalAuthorization",
                          total_amount |->
                              Unwrap(pd.incremental_authorization_details).total_amount,
                          additional_amount |->
                              Unwrap(pd.incremental_authorization_details).additional_amount,
                          currency |-> pd.currency,
                          connector_transaction_id |-> id.val])

\* TryFrom<PaymentAdditionalData> for PaymentsCaptureData
PaymentsCaptureData_try_from(pd, conn) ==
    LET connector == get_connector_by_name(conn)
        amount_to_capture == IF IsSome(pd.payment_attempt.amount_to_capture)
                             THEN Unwrap(pd.payment_attempt.amount_to_capture)
                             ELSE pd.amount
        browser_info == browser_info_of(pd.payment_attempt)
        amount == pd.amount
    IN  IF ~connector.ok THEN connector
        ELSE IF ~browser_info.ok THEN browser_info
        ELSE LET id == required_connector_transaction_id(connector.val, pd.payment_attempt)
             IN  IF ~id.ok THEN id
                 ELSE Ok([flow |-> "Capture",
                          amount_to_capture |-> amount_to_capture,
                          minor_amount_to_capture |-> amount_to_capture,
                          currency |-> pd.currency,
                          connector_transaction_id |-> id.val,
                          payment_amount |-> amount,
                          minor_payment_amount |-> amount,
                          connector_meta |-> pd.payment_attempt.connector_metadata,
                          browser_info |-> browser_info.val,
                          metadata |-> pd.payment_intent.metadata])

\* TryFrom<PaymentAdditionalData> for PaymentsCancelData
PaymentsCancelData_try_from(pd, conn) ==
    LET connector == get_connector_by_name(conn)
        browser_info == browser_info_of(pd.payment_attempt)
        amount == pd.amount
    IN  IF ~connector.ok THEN connector
        ELSE IF ~browser_info.ok THEN browser_info
        ELSE LET id == required_connector_transaction_id(connector.val, pd.payment_attempt)
             IN  IF ~id.ok THEN id
                 ELSE Ok([flow |-> "Void",
                          amount |-> Some(amount),
                          minor_amount |-> Some(amount),
                          currency |-> Some(pd.currency),
                          connector_transaction_id |-> id.val,
                          cancellation_reason |-> pd.payment_attempt.cancellation_reason,
                          connector_meta |-> pd.payment_attempt.connector_metadata,
                          browser_info |-> browser_info.val,
                          metadata |-> pd.payment_intent.metadata])

\* TryFrom<PaymentAdditionalData> for PaymentsApproveData
PaymentsApproveData_try_from(pd, conn) ==
    Ok([flow |-> "Approve", amount |-> Some(pd.amount), currency |-> Some(pd.currency)])

\* TryFrom<PaymentAdditionalData> for PaymentsRejectData
PaymentsRejectData_try_from(pd, conn) ==
    Ok([flow |-> "Reject", amount |-> Some(pd.amount), currency |-> Some(pd.currency)])

\* TryFrom<PaymentAdditionalData> for PaymentsSessionData
PaymentsSessionData_try_from(pd, conn) ==
    LET order_details == order_details_of(pd.payment_intent)
        amount == surcharge_or_amount(pd)
    IN  IF ~order_details.ok THEN order_details
        ELSE Ok([flow |-> "Session",
                 amount |-> amount,
                 minor_amount |-> amount,
                 currency |-> pd.currency,
                 order_details |-> order_details.val,
                 surcharge_details |-> pd.surcharge_details])

SetupMandateRequestData_try_from_mandate_default(pd, conn) ==
    LET browser_info == browser_info_of(pd.payment_attempt)
        amount == pd.amount
        payment_method_data ==
            IF IsSome(pd.payment_method_data) THEN pd.payment_method_data
            ELSE IF IsSome(pd.mandate_id) THEN Some("MandatePayment") ELSE None
    IN  IF ~browser_info.ok THEN browser_info
        ELSE IF IsNone(payment_method_data)
        THEN Err(MissingRequiredField("payment_method_data"))
        ELSE Ok([flow |-> "SetupMandate",
                 currency |-> pd.currency,
                 amount |-> Some(amount),
                 minor_amount |-> Some(amount),
                 payment_method_data |-> Unwrap(payment_method_data),
                 off_session |-> off_session_of(pd),
                 mandate_id |-> pd.mandate_id,
                 browser_info |-> browser_info.val,
                 metadata |-> pd.payment_intent.metadata])

\* TryFrom<PaymentAdditionalData> for SetupMandateRequestData
SetupMandateRequestData_try_from(pd, conn) ==
    LET browser_info == browser_info_of(pd.payment_attempt)
        amount == pd.amount
    IN  IF ~browser_info.ok THEN browser_info
        ELSE IF IsNone(pd.payment_method_data)
        THEN Err(MissingRequiredField("payment_method_data"))
        ELSE Ok([flow |-> "SetupMandate",
                 currency |-> pd.currency,
                 amount |-> Some(amount),
                 minor_amount |-> Some(amount),
                 payment_method_data |-> Unwrap(pd.payment_method_data),
                 off_session |-> off_session_of(pd),
                 mandate_id |-> pd.mandate_id,
                 browser_info |-> browser_info.val,
                 metadata |-> pd.payment_intent.metadata])

\* TryFrom<PaymentAdditionalData> for CompleteAuthorizeData
CompleteAuthorizeData_try_from(pd, conn) ==
    LET browser_info == browser_info_of(pd.payment_attempt)
        amount == surcharge_or_amount(pd)
    IN  IF ~browser_info.ok THEN browser_info
        ELSE Ok([flow |-> "CompleteAuthorize",
                 mandate_id |-> pd.mandate_id,
                 off_session |-> off_session_of(pd),
                 amount |-> amount,
                 minor_amount |-> amount,
                 currency |-> pd.currency,
                 browser_info |-> browser_info.val,
                 payment_method_data |-> pd.payment_method_data,
                 connector_transaction_id |-> pd.payment_attempt.connector_transaction_id,
                 connector_meta |-> pd.payment_attempt.connector_metadata,
                 metadata |-> pd.payment_intent.metadata])

\* TryFrom<PaymentAdditionalData> for PaymentsPreProcessingData
PaymentsPreProcessingData_try_from(pd, conn) ==
    LET order_details == order_details_of(pd.payment_intent)
        browser_info == browser_info_of(pd.payment_attempt)
        amount == surcharge_or_amount(pd)
    IN  IF ~order_details.ok THEN order_details
        ELSE IF ~browser_info.ok THEN browser_info
        ELSE Ok([flow |-> "PreProcessing",
                 payment_method_data |-> pd.payment_method_data,
                 currency |-> Some(pd.currency),
                 amount |-> Some(amount),
                 minor_amount |-> Some(amount),
                 order_details |-> order_details.val,
                 browser_info |-> browser_info.val,
                 surcharge_details |-> pd.surcharge_details,
                 connector_transaction_id |-> pd.payment_attempt.connector_transaction_id,
                 mandate_id |-> pd.mandate_id])

Flows == {"Authorize", "PSync", "IncrementalAuthorization", "Capture", "Void", "Approve",
          "Reject", "Session", "SetupMandate", "CompleteAuthorize", "PreProcessing"}

\* T::try_from(additional_data), T chosen by the flow
request_try_from(flow, pd, conn) ==
    CASE flow = "Authorize" -> PaymentsAuthorizeData_try_from(pd, conn)
      [] flow = "PSync" -> PaymentsSyncData_try_from(pd, conn)
      [] flow = "IncrementalAuthorization" ->
             PaymentsIncrementalAuthorizationData_try_from(pd, conn)
      [] flow = "Capture" -> PaymentsCaptureData_try_from(pd, conn)
      [] flow = "Void" -> PaymentsCancelData_try_from(pd, conn)
      [] flow = "Approve" -> PaymentsApproveData_try_from(pd, conn)
      [] flow = "Reject" -> PaymentsRejectData_try_from(pd, conn)
      [] flow = "Session" -> PaymentsSessionData_try_from(pd, conn)
      [] flow = "SetupMandate" -> SetupMandateRequestData_try_from(pd, conn)
      [] flow = "CompleteAuthorize" -> CompleteAuthorizeData_try_from(pd, conn)
      [] OTHER -> PaymentsPreProcessingData_try_from(pd, conn)

-----------------------------------------------------------------------------
(* The capture reconciler: ForeignTryFrom<CaptureSyncResponse> for         *)
(* CaptureUpdate.                                                          *)

\* the band of status codes reported as Pending
PendingStatusCodeFirst == 500
PendingStatusCodeLast == 511

\* ForeignTryFrom<AttemptStatus> for CaptureStatus
CaptureStatus_foreign_try_from(status) ==
    IF status \in {"Charged", "PartialCharged"} THEN Ok("Charged")
    ELSE IF status \in {"Pending", "CaptureInitiated"} THEN Ok("Pending")
    ELSE IF status \in {"Failure", "CaptureFailed"} THEN Ok("Failed")
    ELSE Err([error |-> "ExpectedFormat", field_name |-> "attempt_status"])

error_status_wide_band(status_code) ==
    IF status_code >= PendingStatusCodeFirst /\ status_code <= PendingStatusCodeLast + 1
    THEN "Pending" ELSE "Failed"

\* match status_code { 500..=511 => Pending, _ => Failed }
error_status(status_code) ==
    IF status_code >= PendingStatusCodeFirst /\ status_code <= PendingStatusCodeLast
    THEN "Pending" ELSE "Failed"

connector_capture_id_any(resource_id) ==
    IF resource_id.kind = "NoResponseId" THEN None ELSE Some(resource_id.id)

\* the id of a ConnectorTransactionId resource id, none for the other kinds
connector_capture_id(resource_id) ==
    IF resource_id.kind = "ConnectorTransactionId" THEN Some(resource_id.id) ELSE None

CaptureUpdate_foreign_try_from(capture_sync) ==
    IF capture_sync.kind = "Success"
    THEN LET status == CaptureStatus_foreign_try_from(capture_sync.status)
         IN  IF ~status.ok THEN status
             ELSE Ok([kind |-> "ResponseUpdate",
                      status |-> status.val,
                      connector_capture_id |-> connector_capture_id(capture_sync.resource_id),
                      connector_response_reference_id |->
                          capture_sync.connector_response_reference_id])
    ELSE Ok([kind |-> "ErrorUpdate",
             status |-> error_status(capture_sync.status_code),
             error_code |-> Some(capture_sync.code),
             error_message |-> Some(capture_sync.message),
             error_reason |-> capture_sync.reason])

-----------------------------------------------------------------------------
(* The state: one aggregate as orchestration hands it over, and the output *)
(* of each component run on it.                                            *)

BaseUrl == "http://localhost:8080"

DefaultAttempt ==
    [payment_id |-> "pay_1", attempt_id |-> "pay_1_1", merchant_id |-> "merchant_1",
     connector |-> Some("stripe"), payment_method |-> Some("Card"),
     payment_method_type |-> None, connector_metadata |-> None,
     authentication_data |-> None, currency |-> Some("USD"), amount |-> 1,
     amount_capturable |-> 1, amount_to_capture |-> None, payment_method_data |-> None,
     browser_info |-> None, connector_transaction_id |-> None, charge_id |-> None,
     cancellation_reason |-> None, error_code |-> None, error_message |-> None]

DefaultIntent ==
    [payment_id |-> "pay_1", merchant_id |-> "merchant_1", status |-> "Processing",
     amount_captured |-> None, customer_details |-> None, payment_confirm_source |-> None,
     client_secret |-> Some("pay_1_secret"), charges |-> None, order_details |-> None,
     metadata |-> None, connector_metadata |-> None]

DefaultPaymentData ==
    [payment_attempt |-> DefaultAttempt, payment_intent |-> DefaultIntent, amount |-> 1,
     currency |-> "USD", surcharge_details |-> None, authentication |-> None,
     sessions_token |-> <<"token_1", "token_2">>, mandate_id |-> None,
     payment_method_data |-> Some("Card"), incremental_authorization_details |-> None,
     payment_method_info |-> None, address |-> [billing |-> "billing_1"]]

DefaultCall ==
    [operation |-> "PaymentStatus", connector_http_status_code |-> None,
     external_latency |-> None, is_latency_header_enabled |-> None]

DefaultCaptureSync ==
    [kind |-> "Success", resource_id |-> [kind |-> "NoResponseId", id |-> 0],
     status |-> "Charged", connector_response_reference_id |-> None]

\* storage::Authentication, the fields the transformers read
Authentication(cavv, separate, method_url, method_data, status) ==
    [cavv |-> cavv, separate_authn_required |-> separate,
     three_ds_method_url |-> method_url, three_ds_method_data |-> method_data,
     authentication_status |-> status]

\* an enabled merchant connector account with credentials that parse
DefaultMerchantConnectorAccount ==
    [disabled |-> FALSE, test_mode |-> Some(TRUE),
     connector_account_details |-> [auth_type |-> "HeaderKey", api_key |-> "key_1"],
     metadata |-> None, connector_wallets_details |-> None]

\* the locals of construct_payment_router_data before it assigns them
EmptyFrame ==
    [auth_type |-> None, payment_method |-> None, connector_enum |-> None,
     connector_api_version |-> None, unified_address |-> None,
     connector_meta_data |-> None]

\* nothing has run yet
NoOutputs ==
    /\ response = None
    /\ session_response = None
    /\ verify_response = None
    /\ PAYMENT_OPS_COUNT = 0
    /\ request = None
    /\ capture_update = None
    /\ pc = "account_enabled"
    /\ frame = EmptyFrame
    /\ calls = <<>>
    /\ router_data = None
    /\ projected_response = None
    /\ runs = <<>>

\* the arguments of a constructor run that is not under study
DefaultConstructorInputs ==
    /\ merchant_connector_account = DefaultMerchantConnectorAccount
    /\ merchant_recipient_data = None
    /\ flow_type = "Authorize"

-----------------------------------------------------------------------------
(* The operations.                                                         *)

Synthesize_latency_gated ==
    LET result == payments_to_payments_response(
                      payment_data, customer, call.operation, BaseUrl,
                      call.connector_http_status_code,
                      IF call.is_latency_header_enabled = Some(FALSE) THEN None
                      ELSE call.external_latency,
                      call.is_latency_header_enabled)
    IN  /\ response' = Some(result)
        /\ PAYMENT_OPS_COUNT' = IF result.ok THEN PAYMENT_OPS_COUNT + 1
                                ELSE PAYMENT_OPS_COUNT
        /\ UNCHANGED <<payment_data, customer, call, session_response, verify_response,
                       connector_name, request, capture_sync_response, capture_update>>
        /\ UNCHANGED untouched_vars

\* one run of payments_to_payments_response; the metric is recorded only when
\* no `?` returned early
Synthesize ==
    LET result == payments_to_payments_response(
                      payment_data, customer, call.operation, BaseUrl,
                      call.connector_http_status_code, call.external_latency,
                      call.is_latency_header_enabled)
    IN  /\ response' = Some(result)
        /\ PAYMENT_OPS_COUNT' = IF result.ok THEN PAYMENT_OPS_COUNT + 1
                                ELSE PAYMENT_OPS_COUNT
        /\ UNCHANGED <<payment_data, customer, call, session_response, verify_response,
                       connector_name, request, capture_sync_response, capture_update>>
        /\ UNCHANGED untouched_vars

\* ToResponse::generate_response for PaymentsResponse
GenerateResponse ==
    /\ response = None
    /\ Synthesize

\* the same synthesis invoked again on the unmodified aggregate
RegenerateResponse ==
    /\ response # None
    /\ PAYMENT_OPS_COUNT < MaxOps
    /\ Synthesize

\* PaymentsResponse::foreign_from((payment_intent, payment_attempt))
ProjectResponse ==
    /\ projected_response = None
    /\ projected_response' = Some(PaymentsResponse_foreign_from(payment_data.payment_intent,
                                                               payment_data.payment_attempt))
    /\ UNCHANGED <<payment_data, customer, call, response, session_response,
                   verify_response, PAYMENT_OPS_COUNT, connector_name, request,
                   capture_sync_response, capture_update, runs>>
    /\ UNCHANGED constructor_vars

\* ToResponse::generate_response for PaymentsSessionResponse
GenerateSessionResponse ==
    /\ session_response' = Some(session_generate_response(payment_data))
    /\ UNCHANGED <<payment_data, customer, call, response, verify_response,
                   PAYMENT_OPS_COUNT, connector_name, request, capture_sync_response,
                   capture_update>>
    /\ UNCHANGED untouched_vars

\* ToResponse::generate_response for VerifyResponse
GenerateVerifyResponse ==
    /\ verify_response' = Some(verify_generate_response(payment_data, customer))
    /\ UNCHANGED <<payment_data, customer, call, response, session_response,
                   PAYMENT_OPS_COUNT, connector_name, request, capture_sync_response,
                   capture_update>>
    /\ UNCHANGED untouched_vars

\* T::try_from(additional_data) for the flow's request type
BuildRequest(flow) ==
    /\ request = None
    /\ request' = Some([flow |-> flow,
                        result |-> request_try_from(flow, payment_data, connector_name)])
    /\ UNCHANGED <<payment_data, customer, call, response, session_response,
                   verify_response, PAYMENT_OPS_COUNT, connector_name,
                   capture_sync_response, capture_update>>
    /\ UNCHANGED untouched_vars

\* CaptureUpdate::foreign_try_from(capture_sync_response)
ReconcileCapture ==
    /\ capture_update = None
    /\ capture_update' = Some(CaptureUpdate_foreign_try_from(capture_sync_response))
    /\ UNCHANGED <<payment_data, customer, call, response, session_response,
                   verify_response, PAYMENT_OPS_COUNT, connector_name, request,
                   capture_sync_response>>
    /\ UNCHANGED untouched_vars

-----------------------------------------------------------------------------
(* The capture reconciler on every capture-sync outcome.                   *)

AttemptStatuses == {"Charged", "PartialCharged", "Pending", "CaptureInitiated", "Failure",
                    "CaptureFailed", "Started", "Authorized"}

ResponseIds ==
    {[kind |-> k, id |-> i] : k \in {"ConnectorTransactionId", "EncodedData"},
                              i \in {"id_1", "id_2"}}
    \cup {[kind |-> "NoResponseId", id |-> "none"]}

\* u16 status codes: the band, its surroundings and the ends of the type
StatusCodes ==
    ((PendingStatusCodeFirst - CodeMargin)..(PendingStatusCodeLast + CodeMargin))
    \cup {0, 200, 65535}

CaptureSyncResponses ==
    {[kind |-> "Success", resource_id |-> r, status |-> st,
      connector_response_reference_id |-> ref] :
        r \in ResponseIds, st \in AttemptStatuses, ref \in {None, Some("ref_1")}}
    \cup
    {[kind |-> "Error", code |-> c, message |-> m, reason |-> rs, status_code |-> sc] :
        c \in {"E1", "E2"}, m \in {"declined"}, rs \in {None, Some("no funds")},
        sc \in StatusCodes}

InitCapture ==
    /\ payment_data = DefaultPaymentData
    /\ customer = None
    /\ call = DefaultCall
    /\ connector_name = "stripe"
    /\ capture_sync_response \in CaptureSyncResponses
    /\ DefaultConstructorInputs
    /\ NoOutputs

NextCapture == ReconcileCapture

SpecCapture == InitCapture /\ [][NextCapture]_vars

\* C5: converting a CaptureSyncResponse::Error always succeeds and yields an
\* ErrorUpdate whose status is Pending exactly when 500 <= status_code <= 511 and
\* Failed for every other code, with code, message and reason passed through.
C5_ErrorBucketing ==
    (capture_update # None /\ capture_sync_response.kind = "Error") =>
        LET u == Unwrap(capture_update)
            sc == capture_sync_response.status_code
        IN  /\ u.ok
            /\ u.val.kind = "ErrorUpdate"
            /\ u.val.status = (IF 500 <= sc /\ sc <= 511 THEN "Pending" ELSE "Failed")
            /\ u.val.error_code = Some(capture_sync_response.code)
            /\ u.val.error_message = Some(capture_sync_response.message)
            /\ u.val.error_reason = capture_sync_response.reason

C5_Witness ==
    /\ capture_update # None
    /\ capture_sync_response.kind = "Error"
    /\ capture_sync_response.status_code = 511
    /\ capture_sync_response.reason # None
    /\ Unwrap(capture_update).val.status = "Pending"

\* C6: converting a CaptureSyncResponse::Success yields a ResponseUpdate whose
\* connector_capture_id is the id for ConnectorTransactionId and none for EncodedData
\* and NoResponseId, whose reference id is passed through and whose status is the
\* mapped connector status; when the status mapping fails, the conversion fails.
C6_SuccessUpdate ==
    (capture_update # None /\ capture_sync_response.kind = "Success") =>
        LET u == Unwrap(capture_update)
            r == capture_sync_response.resource_id
            mapped == CaptureStatus_foreign_try_from(capture_sync_response.status)
        IN  IF mapped.ok
            THEN /\ u.ok
                 /\ u.val.kind = "ResponseUpdate"
                 /\ u.val.status = mapped.val
                 /\ u.val.connector_capture_id =
                        (IF r.kind = "ConnectorTransactionId" THEN Some(r.id) ELSE None)
                 /\ u.val.connector_response_reference_id =
                        capture_sync_response.connector_response_reference_id
            ELSE ~u.ok

C6_Witness ==
    /\ capture_update # None
    /\ capture_sync_response.kind = "Success"
    /\ capture_sync_response.resource_id.kind = "EncodedData"
    /\ capture_sync_response.connector_response_reference_id # None
    /\ Unwrap(capture_update).ok
    /\ Unwrap(capture_update).val.connector_capture_id = None

-----------------------------------------------------------------------------
(* The next-action resolver over every connector metadata shape.           *)

ConnectorMetadata == {None, Some(JsonScalar)} \cup {Some(o) : o \in JsonObjects}

\* attempt.authentication_data that decodes as a RedirectForm
RedirectFormJson == [endpoint |-> "https://acs.example/redirect", method |-> "POST"]

\* an authentication record that calls for a separate three-DS authentication
PreAuthentication == Authentication(None, TRUE, Some("https://acs.example/method"), Some("method_data"), "Pending")
\* an authentication record that is already authenticated
DoneAuthentication == Authentication(Some("cavv_1"), TRUE, None, None, "Success")

\* the aggregate with the fields the resolver reads set
ResolverAggregate(conn, pm, pmt, meta, st, ad, auth, tokens) ==
    [DefaultPaymentData EXCEPT
        !.payment_attempt.connector = conn,
        !.payment_attempt.payment_method = pm,
        !.payment_attempt.payment_method_type = pmt,
        !.payment_attempt.connector_metadata = meta,
        !.payment_attempt.authentication_data = ad,
        !.payment_intent.status = st,
        !.authentication = auth,
        !.sessions_token = tokens]

InitNextAction ==
    /\ \E conn \in {None, Some("stripe"), Some("trustpay")},
          pm \in {None, Some("BankTransfer"), Some("Voucher"), Some("Wallet")},
          pmt \in {None, Some("Pix"), Some("Ach")},
          meta \in ConnectorMetadata,
          st \in {"RequiresCustomerAction", "Processing"},
          ad \in {None, Some(RedirectFormJson)},
          auth \in {None, Some(PreAuthentication), Some(DoneAuthentication)} :
            payment_data = ResolverAggregate(conn, pm, pmt, meta, st, ad, auth,
                                             <<"token_1", "token_2">>)
    /\ \E op \in {"PaymentStatus", "PaymentConfirm", "PaymentStart"} :
            call = [DefaultCall EXCEPT !.operation = op]
    /\ customer = None
    /\ connector_name = "stripe"
    /\ capture_sync_response = DefaultCaptureSync
    /\ DefaultConstructorInputs
    /\ NoOutputs

NextNextAction == GenerateResponse

SpecNextAction == InitNextAction /\ [][NextNextAction]_vars

\* the inputs of the synthesis, as the claims name them
TheAttempt == payment_data.payment_attempt
TheIntent == payment_data.payment_intent
TheMetadata == TheAttempt.connector_metadata
MetadataHas(k) ==
    /\ TheMetadata # None
    /\ Unwrap(TheMetadata) # JsonScalar
    /\ k \in DOMAIN Unwrap(TheMetadata)
\* the synthesis ran and returned the JSON response
JsonResponded ==
    /\ response # None
    /\ Unwrap(response).ok
    /\ Unwrap(response).val.kind = "JsonWithHeaders"
ResolvedNextAction == Unwrap(response).val.body.next_action

\* the third-party-SDK override predicate, as section 4.3 states it
OverridePredicate ==
    /\ call.operation = "PaymentConfirm"
    /\ \/ /\ TheAttempt.connector \in {Some("trustpay"), Some("payme")}
          /\ TheAttempt.payment_method = Some("Wallet")
       \/ /\ TheAttempt.connector = Some("plaid")
          /\ TheAttempt.payment_method = Some("OpenBanking")
          /\ TheAttempt.payment_method_type = Some("OpenBankingPIS")

\* which candidates are present, in the order of section 4.3
CandidatePresent ==
    << /\ TheAttempt.payment_method = Some("BankTransfer")
       /\ TheAttempt.payment_method_type # Some("Pix")
       /\ MetadataHas("ach_credit_transfer"),
       TheAttempt.payment_method = Some("Voucher") /\ MetadataHas("reference"),
       MetadataHas("image_data_url") \/ MetadataHas("qr_code_url"),
       MetadataHas("qr_code_fetch_url"),
       MetadataHas("next_action"),
       MetadataHas("display_from_timestamp"),
       TheAttempt.authentication_data # None,
       /\ TheIntent.status = "RequiresCustomerAction"
       /\ payment_data.authentication # None
       /\ Unwrap(payment_data.authentication).cavv = None
       /\ Unwrap(payment_data.authentication).separate_authn_required >>

CandidateType ==
    <<"DisplayBankTransferInformation", "DisplayVoucherInformation", "QrCodeInformation",
      "FetchQrCodeInformation", "InvokeSdkClient", "WaitScreenInformation",
      "RedirectToUrl", "ThreeDsInvoke">>

\* the evaluation gate: RequiresCustomerAction or a source present
GateOpen ==
    \/ TheIntent.status = "RequiresCustomerAction"
    \/ \E i \in 1..6 : CandidatePresent[i]
    \/ payment_data.authentication # None

FirstPresent == CHOOSE i \in 1..8 : CandidatePresent[i] /\ \A j \in 1..(i - 1) : ~CandidatePresent[j]

\* C2: in a non-start-pay synthesis with the override predicate false and the gate
\* open, the resolved next action is the first present candidate in the order
\* bank-transfer, voucher, QR, fetch-QR, PayPal-SDK, wait-screen, redirect, three-DS
\* (voucher wins over QR), and none when no candidate is present.
C2_Precedence ==
    (JsonResponded /\ ~OverridePredicate /\ GateOpen) =>
        IF \E i \in 1..8 : CandidatePresent[i]
        THEN /\ ResolvedNextAction # None
             /\ Unwrap(ResolvedNextAction).type = CandidateType[FirstPresent]
        ELSE ResolvedNextAction = None

C2_Witness ==
    /\ JsonResponded
    /\ ~OverridePredicate
    /\ CandidatePresent[2]
    /\ CandidatePresent[3]
    /\ CandidatePresent[7]
    /\ Unwrap(ResolvedNextAction).type = "DisplayVoucherInformation"

\* C4: for an attempt with payment method BankTransfer and method type Pix,
\* bank_transfer_next_steps_check returns Ok(None) whatever the connector metadata
\* holds, and the resolved next action is never the bank-transfer action.
C4_PixExcluded ==
    (TheAttempt.payment_method = Some("BankTransfer")
     /\ TheAttempt.payment_method_type = Some("Pix")) =>
        /\ bank_transfer_next_steps_check(TheAttempt) = Ok(None)
        /\ JsonResponded =>
            \/ ResolvedNextAction = None
            \/ Unwrap(ResolvedNextAction).type # "DisplayBankTransferInformation"

C4_Witness ==
    /\ TheAttempt.payment_method = Some("BankTransfer")
    /\ TheAttempt.payment_method_type = Some("Pix")
    /\ MetadataHas("ach_credit_transfer")
    /\ JsonResponded
    /\ ResolvedNextAction = None

\* C7: in the non-start-pay path, failing to derive a next-action candidate
\* (metadata that does not parse into a candidate's shape, data missing for the
\* three-DS candidate) never makes the synthesis fail: the response is returned.
C7_CandidateFailureNotFatal ==
    (response # None /\ ~is_start_pay(call.operation)) => Unwrap(response).ok

\* C9: metadata that parses as a QrCodeInformation maps to a QrCodeInformation next
\* action without loss: both URLs for QrCodeUrl, only image_data_url for QrDataUrl,
\* only qr_code_url for QrCodeImageUrl, the display_to_timestamp carried unchanged.
C9_QrCodeLossless ==
    (JsonResponded /\ ~OverridePredicate /\ ~CandidatePresent[1] /\ ~CandidatePresent[2]
     /\ CandidatePresent[3]) =>
        LET meta == Unwrap(TheMetadata)
        IN  ResolvedNextAction =
                Some([type |-> "QrCodeInformation",
                      image_data_url |-> IF "image_data_url" \in DOMAIN meta
                                         THEN Some(meta["image_data_url"]) ELSE None,
                      qr_code_url |-> IF "qr_code_url" \in DOMAIN meta
                                      THEN Some(meta["qr_code_url"]) ELSE None,
                      display_to_timestamp |->
                          IF "display_to_timestamp" \in DOMAIN meta
                          THEN Some(meta["display_to_timestamp"]) ELSE None])

C9_Witness ==
    /\ JsonResponded
    /\ MetadataHas("image_data_url")
    /\ MetadataHas("qr_code_url")
    /\ MetadataHas("display_to_timestamp")
    /\ ResolvedNextAction # None
    /\ Unwrap(ResolvedNextAction).type = "QrCodeInformation"
    /\ Unwrap(ResolvedNextAction).display_to_timestamp = Some(2)

\* none of the six metadata candidates is present
NoMetadataCandidate == \A i \in 1..6 : ~CandidatePresent[i]

\* C14: whenever the attempt carries authentication-data, none of the candidates
\* bank-transfer, voucher, QR-code, fetch-QR, PayPal-SDK and wait-screen is present
\* and the override predicate does not hold, the resolved next action is
\* redirect-to-url built from the start-pay URL, whatever the intent status is.
C14_RedirectWhateverStatus ==
    (/\ JsonResponded
     /\ TheAttempt.authentication_data # None
     /\ NoMetadataCandidate
     /\ ~OverridePredicate) =>
        ResolvedNextAction =
            Some([type |-> "RedirectToUrl",
                  redirect_to_url |-> create_startpay_url(BaseUrl, TheAttempt, TheIntent)])

\* C15: when the intent status is not RequiresCustomerAction, no next-action source
\* is present (no candidate metadata, no authentication-data on the attempt, no
\* authentication record) and the override predicate does not hold, the response
\* carries no next action.
C15_NoSourceNoAction ==
    (/\ JsonResponded
     /\ TheIntent.status # "RequiresCustomerAction"
     /\ NoMetadataCandidate
     /\ TheAttempt.authentication_data = None
     /\ payment_data.authentication = None
     /\ ~OverridePredicate) =>
        ResolvedNextAction = None

\* a confirm whose metadata parses into no candidate
C15_Witness ==
    /\ JsonResponded
    /\ call.operation = "PaymentConfirm"
    /\ TheIntent.status = "Processing"
    /\ TheMetadata = Some(JsonScalar)
    /\ TheAttempt.payment_method = Some("Wallet")
    /\ TheAttempt.connector = Some("stripe")
    /\ TheAttempt.authentication_data = None
    /\ payment_data.authentication = None
    /\ ResolvedNextAction = None

\* C17: for a start-pay operation, synthesis on an attempt that carries no
\* redirection data fails with the missing-required-value failure for
\* redirection_data; it never returns a successful response.
C17_StartPayNeedsRedirection ==
    (/\ response # None
     /\ is_start_pay(call.operation)
     /\ TheAttempt.authentication_data = None) =>
        response = Some(Err(MissingRequiredField("redirection_data")))

-----------------------------------------------------------------------------
(* The third-party-SDK override over operations, connectors and methods.   *)

OverrideMetadata ==
    {None, Some(JsonScalar)}
    \cup {Some(o) : o \in {j \in JsonObjects : DOMAIN j \in {{"reference"}, {"qr_code_url"}}}}

InitOverride ==
    /\ \E conn \in {None, Some("stripe"), Some("trustpay"), Some("payme"), Some("plaid")},
          pm \in {None, Some("Card"), Some("Wallet"), Some("OpenBanking"),
                  Some("Voucher"), Some("BankTransfer")},
          pmt \in {None, Some("Pix"), Some("Ach"), Some("OpenBankingPIS")},
          meta \in OverrideMetadata,
          st \in {"RequiresCustomerAction", "Processing"},
          ad \in {None, Some(RedirectFormJson)},
          auth \in {None, Some(PreAuthentication), Some(DoneAuthentication)},
          tokens \in {<<>>, <<"token_1", "token_2">>} :
            payment_data = ResolverAggregate(conn, pm, pmt, meta, st, ad, auth, tokens)
    /\ \E op \in {"PaymentStatus", "PaymentConfirm", "PaymentStart"} :
            call = [DefaultCall EXCEPT !.operation = op]
    /\ customer = None
    /\ connector_name = "stripe"
    /\ capture_sync_response = DefaultCaptureSync
    /\ DefaultConstructorInputs
    /\ NoOutputs

NextOverride == GenerateResponse

SpecOverride == InitOverride /\ [][NextOverride]_vars

\* C3: in every successful non-start-pay synthesis the resolved next action is
\* ThirdPartySdkSessionToken if and only if the operation is confirm and (the
\* connector is trustpay or payme with method wallet, or the connector is plaid with
\* method open-banking and type open-banking-PIS); when the predicate holds the token
\* action, carrying the first session token, replaces what the chain resolved.
C3_SdkOverride ==
    JsonResponded =>
        /\ (/\ ResolvedNextAction # None
            /\ Unwrap(ResolvedNextAction).type = "ThirdPartySdkSessionToken")
           <=> OverridePredicate
        /\ OverridePredicate =>
            ResolvedNextAction =
                Some([type |-> "ThirdPartySdkSessionToken",
                      session_token |-> IF payment_data.sessions_token = <<>> THEN None
                                        ELSE Some(payment_data.sessions_token[1])])

\* the override with the gate closed and with a candidate the chain would resolve
C3_Witness ==
    /\ JsonResponded
    /\ OverridePredicate
    /\ ~GateOpen
    /\ CandidatePresent[7]
    /\ TheAttempt.connector = Some("plaid")
    /\ Unwrap(ResolvedNextAction).type = "ThirdPartySdkSessionToken"

-----------------------------------------------------------------------------
(* The three-DS-invoke candidate over every authentication record.         *)

AuthenticationRecords ==
    {Authentication(cavv, separate, method_url, method_data, "Pending") :
        cavv \in {None, Some("cavv_1")},
        separate \in BOOLEAN,
        method_url \in {None, Some("https://acs.example/method")},
        method_data \in {None, Some("method_data")}}

InitThreeDs ==
    /\ \E conn \in {None, Some("stripe")},
          pm \in {None, Some("Voucher")},
          meta \in OverrideMetadata,
          st \in {"RequiresCustomerAction", "Processing"},
          ad \in {None, Some(RedirectFormJson)},
          auth \in {None} \cup {Some(a) : a \in AuthenticationRecords} :
            payment_data = ResolverAggregate(conn, pm, None, meta, st, ad, auth,
                                             <<"token_1">>)
    /\ \E op \in {"PaymentStatus", "PaymentConfirm", "PaymentStart"} :
            call = [DefaultCall EXCEPT !.operation = op]
    /\ customer = None
    /\ connector_name = "stripe"
    /\ capture_sync_response = DefaultCaptureSync
    /\ DefaultConstructorInputs
    /\ NoOutputs

NextThreeDs == GenerateResponse

SpecThreeDs == InitThreeDs /\ [][NextThreeDs]_vars

\* C16: the resolver yields a three-DS-invoke action only if the intent status is
\* RequiresCustomerAction, an authentication record exists, its cavv is absent,
\* separate authentication is required and no higher-precedence candidate is present;
\* in that action the method-data-submission flag is true exactly when both the
\* method URL and the method data are on the authentication record, and otherwise
\* the flag is false with method URL and method data null.
C16_ThreeDsInvoke ==
    (/\ JsonResponded
     /\ ResolvedNextAction # None
     /\ Unwrap(ResolvedNextAction).type = "ThreeDsInvoke") =>
        /\ TheIntent.status = "RequiresCustomerAction"
        /\ payment_data.authentication # None
        /\ Unwrap(payment_data.authentication).cavv = None
        /\ Unwrap(payment_data.authentication).separate_authn_required
        /\ \A i \in 1..7 : ~CandidatePresent[i]
        /\ LET authentication == Unwrap(payment_data.authentication)
               details == Unwrap(ResolvedNextAction).three_ds_method_details
           IN  IF authentication.three_ds_method_url # None
                  /\ authentication.three_ds_method_data # None
               THEN details = [three_ds_method_data_submission |-> TRUE,
                               three_ds_method_data |-> authentication.three_ds_method_data,
                               three_ds_method_url |-> authentication.three_ds_method_url]
               ELSE details = [three_ds_method_data_submission |-> FALSE,
                               three_ds_method_data |-> None,
                               three_ds_method_url |-> None]

\* a three-DS-invoke action for a record with a method URL and no method data
C16_Witness ==
    /\ JsonResponded
    /\ ResolvedNextAction # None
    /\ Unwrap(ResolvedNextAction).type = "ThreeDsInvoke"
    /\ Unwrap(payment_data.authentication).three_ds_method_url # None
    /\ Unwrap(payment_data.authentication).three_ds_method_data = None
    /\ ~Unwrap(ResolvedNextAction).three_ds_method_details.three_ds_method_data_submission

-----------------------------------------------------------------------------
(* The customer projection over every customer record and details blob.    *)

CustomerFields == {"name", "email", "phone", "phone_country_code"}

\* domain::Customer, the fields the projection reads
CustomerRecords ==
    {[customer_id |-> "cus_1", name |-> n, email |-> e, phone |-> p,
      phone_country_code |-> c] :
        n \in {None, Some("Bob")}, e \in {None, Some("a@b.com")},
        p \in {None, Some("5550100")}, c \in {None, Some("+1")}}

\* the values the customer-details blob of the intent holds
BlobValue ==
    [name |-> "Ada", email |-> "ada@example.com", phone |-> "5550199",
     phone_country_code |-> "+44"]

CustomerDetailsBlobs ==
    {None, Some(JsonScalar)}
    \cup {Some([k \in S |-> BlobValue[k]]) : S \in SUBSET CustomerFields}

InitCustomer ==
    /\ \E blob \in CustomerDetailsBlobs :
            payment_data = [DefaultPaymentData EXCEPT !.payment_intent.customer_details = blob]
    /\ customer \in {None} \cup {Some(c) : c \in CustomerRecords}
    /\ \E op \in {"PaymentStatus", "PaymentConfirm"} :
            call = [DefaultCall EXCEPT !.operation = op]
    /\ connector_name = "stripe"
    /\ capture_sync_response = DefaultCaptureSync
    /\ DefaultConstructorInputs
    /\ NoOutputs

NextCustomer == GenerateResponse

SpecCustomer == InitCustomer /\ [][NextCustomer]_vars

\* C8: when the intent's customer-details blob decodes, each of name, email, phone
\* and phone_country_code is the decoded value when present, else the customer-table
\* value, and id is the customer-table id (absent without a customer record); when
\* the blob is absent or does not decode, the projection is the customer-table one.
C8_CustomerProjection ==
    JsonResponded =>
        LET blob == TheIntent.customer_details
            decoded == blob # None /\ Unwrap(blob) # JsonScalar
            TableValue(f) == IF customer = None THEN None ELSE Unwrap(customer)[f]
            Reconciled(f) == IF f \in DOMAIN Unwrap(blob) THEN Some(Unwrap(blob)[f])
                             ELSE TableValue(f)
            table_id == IF customer = None THEN None
                        ELSE Some(Unwrap(customer).customer_id)
            projection == Unwrap(response).val.body.customer
        IN  IF decoded
            THEN projection =
                     Some([id |-> table_id, name |-> Reconciled("name"),
                           email |-> Reconciled("email"), phone |-> Reconciled("phone"),
                           phone_country_code |-> Reconciled("phone_country_code")])
            ELSE IF customer = None THEN projection = None
            ELSE projection =
                     Some([id |-> table_id, name |-> TableValue("name"),
                           email |-> TableValue("email"), phone |-> TableValue("phone"),
                           phone_country_code |-> TableValue("phone_country_code")])

\* decoded name Ada with no email, table name Bob and email a@b.com
C8_Witness ==
    /\ JsonResponded
    /\ TheIntent.customer_details # None
    /\ Unwrap(TheIntent.customer_details) # JsonScalar
    /\ DOMAIN Unwrap(TheIntent.customer_details) = {"name"}
    /\ customer # None
    /\ Unwrap(customer).name = Some("Bob")
    /\ Unwrap(customer).email = Some("a@b.com")
    /\ Unwrap(Unwrap(response).val.body.customer).name = Some("Ada")
    /\ Unwrap(Unwrap(response).val.body.customer).email = Some("a@b.com")
    /\ Unwrap(Unwrap(response).val.body.customer).id = Some("cus_1")

-----------------------------------------------------------------------------
(* Each synthesizer invoked repeatedly on one unmodified aggregate.        *)

InitIdempotence ==
    /\ \E conn \in {None, Some("stripe")},
          meta \in OverrideMetadata,
          st \in {"RequiresCustomerAction", "Processing"},
          ad \in {None, Some(RedirectFormJson)},
          auth \in {None, Some(PreAuthentication)},
          source \in {None, Some("sdk")},
          secret \in {None, Some("pay_1_secret")},
          pmd \in {None, Some(JsonScalar)} :
            payment_data =
                [ResolverAggregate(conn, Some("Voucher"), None, meta, st, ad, auth,
                                   <<"token_1">>)
                 EXCEPT !.payment_intent.payment_confirm_source = source,
                        !.payment_intent.client_secret = secret,
                        !.payment_attempt.payment_method_data = pmd]
    /\ \E op \in {"PaymentStatus", "PaymentConfirm", "PaymentStart"},
          code \in {None, Some(200)},
          latency \in {None, Some(5)} :
            call = [DefaultCall EXCEPT !.operation = op,
                                       !.connector_http_status_code = code,
                                       !.external_latency = latency]
    /\ customer \in {None, Some([customer_id |-> "cus_1", name |-> Some("Bob"),
                                 email |-> None, phone |-> None,
                                 phone_country_code |-> None])}
    /\ connector_name = "stripe"
    /\ capture_sync_response = DefaultCaptureSync
    /\ DefaultConstructorInputs
    /\ NoOutputs

NextIdempotence ==
    \/ GenerateResponse
    \/ RegenerateResponse
    \/ GenerateSessionResponse
    \/ GenerateVerifyResponse

SpecIdempotence == InitIdempotence /\ [][NextIdempotence]_vars

-----------------------------------------------------------------------------
(* The request builders over amounts, surcharges and connectors.           *)

\* a surcharge adds to the base amount: final_amount is never below it
SurchargeDetails(amount) ==
    {None} \cup {Some([final_amount |-> f]) : f \in amount..MaxAmount}

BrowserInfoJson == [user_agent |-> "agent_1"]

InitBuilders ==
    /\ \E amount \in 0..MaxAmount,
          to_capture \in {None, Some(1)},
          browser_info \in {None, Some(JsonScalar), Some(BrowserInfoJson)},
          pmd \in {None, Some("Card")},
          mandate_id \in {None, Some("man_1")},
          txn_id \in {None, Some("txn_1")},
          incremental \in {None, Some([total_amount |-> 2, additional_amount |-> 1])} :
        \E surcharge \in SurchargeDetails(amount) :
            payment_data =
                [DefaultPaymentData EXCEPT
                    !.amount = amount,
                    !.surcharge_details = surcharge,
                    !.payment_method_data = pmd,
                    !.mandate_id = mandate_id,
                    !.incremental_authorization_details = incremental,
                    !.payment_attempt.amount = amount,
                    !.payment_attempt.amount_to_capture = to_capture,
                    !.payment_attempt.browser_info = browser_info,
                    !.payment_attempt.connector_transaction_id = txn_id]
    /\ connector_name \in {"stripe", "helcim", "nexinets", "unknown"}
    /\ customer = None
    /\ call = DefaultCall
    /\ capture_sync_response = DefaultCaptureSync
    /\ DefaultConstructorInputs
    /\ NoOutputs

NextBuilders == \E flow \in Flows : BuildRequest(flow)

SpecBuilders == InitBuilders /\ [][NextBuilders]_vars

\* the builders that derive an amount, and the amount of the request each builds
AmountBuilders == Flows \ {"IncrementalAuthorization"}
DerivedAmount(req) ==
    IF req.flow \in {"Authorize", "PSync", "Session", "CompleteAuthorize"} THEN req.amount
    ELSE IF req.flow = "Capture" THEN req.payment_amount
    ELSE Unwrap(req.amount)

\* C1: for an aggregate whose surcharge_details is present with final amount s,
\* every request builder that derives an amount (authorize, sync, capture, cancel,
\* approve, reject, session, setup-mandate, complete-authorize, pre-processing)
\* outputs s as its amount.
C1_SurchargeAmountEverywhere ==
    (/\ request # None
     /\ Unwrap(request).flow \in AmountBuilders
     /\ Unwrap(request).result.ok
     /\ payment_data.surcharge_details # None) =>
        DerivedAmount(Unwrap(request).result.val) =
            Unwrap(payment_data.surcharge_details).final_amount

-----------------------------------------------------------------------------
(* construct_payment_router_data, one statement at a time.                 *)

\* the variables the constructor reads or leaves alone
transformer_vars == <<payment_data, customer, call, response, session_response,
                      verify_response, PAYMENT_OPS_COUNT, connector_name,
                      capture_sync_response, capture_update, projected_response, runs>>
constructor_inputs == <<merchant_connector_account, merchant_recipient_data, flow_type>>

MerchantConnectorAccountDisabled ==
    [error |-> "MerchantConnectorAccountDisabled", field_name |-> ""]

\* parse_value("ConnectorAuthType") of the account's connector_account_details
parse_ConnectorAuthType(json) ==
    IF HasKeys(json, {"auth_type"}) THEN Ok(json) ELSE ParseError

\* api_models::enums::Connector::from_str, with its two change_context calls
Connector_from_str(connector_id) ==
    IF connector_id \in KnownConnectors THEN Ok(connector_id)
    ELSE Err(InvalidDataValue("connector"))

\* state.conf.multiple_api_version_supported_connectors.supported_connectors
supported_connectors == {"stripe"}

\* what store.find_config_by_key can answer
ConfigLookups == {Ok([config |-> "api_version_2"]), Err("ValueNotFound")}

\* what decrypt_generic_data::<Address> can answer
AddressDecryptions == {Ok(None), Ok(Some("pm_billing_1")), Err(InternalServerError)}

\* Address::unify_with_payment_data_billing
unify_with_payment_data_billing(address, payment_method_billing) ==
    [address |-> address, payment_method_billing |-> payment_method_billing]

\* serde_json::to_value of the recipient data; a record that cannot be encoded
\* carries encodable = FALSE
serde_json_to_value(data) ==
    IF data.encodable THEN Ok([merchant_recipient_data |-> data.account])
    ELSE Err("serde_json::Error")

connector_meta_data_account_first(mca, recipient_data) ==
    IF IsSome(mca.metadata) THEN Ok(mca.metadata)
    ELSE IF IsSome(recipient_data)
    THEN LET val == serde_json_to_value(Unwrap(recipient_data))
         IN  IF val.ok THEN Ok(Some(val.val)) ELSE Err(InternalServerError)
    ELSE Ok(None)

\* the connector_meta_data field of the record under construction
connector_meta_data(mca, recipient_data) ==
    IF IsSome(recipient_data)
    THEN LET val == serde_json_to_value(Unwrap(recipient_data))
         IN  IF val.ok THEN Ok(Some(val.val)) ELSE Err(InternalServerError)
    ELSE Ok(mca.metadata)

\* types::RouterData as the constructor fills it
RouterData(pd, cust, connector_id, mca, locals, req) ==
    [merchant_id |-> "merchant_1",
     customer_id |-> IF IsNone(cust) THEN None ELSE Some(Unwrap(cust).customer_id),
     connector |-> connector_id,
     payment_id |-> pd.payment_attempt.payment_id,
     attempt_id |-> pd.payment_attempt.attempt_id,
     payment_method |-> Unwrap(locals.payment_method),
     connector_auth_type |-> Unwrap(locals.auth_type),
     address |-> Unwrap(locals.unified_address),
     connector_meta_data |-> Unwrap(locals.connector_meta_data),
     connector_wallets_details |-> mca.connector_wallets_details,
     request |-> req,
     response |-> Ok([resource_id |->
                         IF IsSome(pd.payment_attempt.connector_transaction_id)
                         THEN [ConnectorTransactionId |->
                                   Unwrap(pd.payment_attempt.connector_transaction_id)]
                         ELSE [NoResponseId |-> TRUE]]),
     amount_captured |-> pd.payment_intent.amount_captured,
     test_mode |-> mca.test_mode,
     connector_api_version |-> Unwrap(locals.connector_api_version),
     connector_http_status_code |-> None,
     external_latency |-> None]

\* an entry of the log of calls: the function called and whether it succeeded
Called(fn, result) == [fn |-> fn, ok |-> result.ok]

\* `?` on a failure: the constructor returns it
ReturnErr(e) ==
    /\ router_data' = Some(e)
    /\ pc' = "done"
    /\ UNCHANGED <<frame, calls, request>>

\* the statement succeeded: go on to the next one
Goto(next_pc, locals) ==
    /\ pc' = next_pc
    /\ frame' = locals
    /\ UNCHANGED <<router_data, calls, request>>

\* fp_utils::when(merchant_connector_account.is_disabled(), ..)?
CheckAccountEnabled ==
    /\ pc = "account_enabled"
    /\ IF merchant_connector_account.disabled
       THEN ReturnErr(Err(MerchantConnectorAccountDisabled))
       ELSE Goto("auth_type", frame)
    /\ UNCHANGED <<transformer_vars, constructor_inputs>>

ParseConnectorAuthType_unchecked ==
    /\ pc = "auth_type"
    /\ LET auth_type ==
               parse_ConnectorAuthType(merchant_connector_account.connector_account_details)
       IN  Goto("payment_method",
                [frame EXCEPT !.auth_type = IF auth_type.ok THEN Some(auth_type.val)
                                            ELSE Some("NoKey")])
    /\ UNCHANGED <<transformer_vars, constructor_inputs>>

\* get_connector_account_details().parse_value("ConnectorAuthType")..?
ParseConnectorAuthType ==
    /\ pc = "auth_type"
    /\ LET auth_type ==
               parse_ConnectorAuthType(merchant_connector_account.connector_account_details)
       IN  IF auth_type.ok
           THEN Goto("payment_method", [frame EXCEPT !.auth_type = Some(auth_type.val)])
           ELSE ReturnErr(Err(InternalServerError))
    /\ UNCHANGED <<transformer_vars, constructor_inputs>>

\* payment_attempt.payment_method.or(..).get_required_value("payment_method_type")?
ResolvePaymentMethod ==
    /\ pc = "payment_method"
    /\ LET payment_method == OptOr(payment_data.payment_attempt.payment_method,
                                   payment_data.payment_attempt.payment_method)
       IN  IF IsSome(payment_method)
           THEN Goto("connector_enum", [frame EXCEPT !.payment_method = payment_method])
           ELSE ReturnErr(Err(MissingRequiredField("payment_method_type")))
    /\ UNCHANGED <<transformer_vars, constructor_inputs>>

\* Connector::from_str(connector_id)..?
ParseConnectorName ==
    /\ pc = "connector_enum"
    /\ LET connector_enum == Connector_from_str(connector_name)
       IN  IF connector_enum.ok
           THEN Goto("api_version",
                     [frame EXCEPT !.connector_enum = Some(connector_enum.val)])
           ELSE ReturnErr(connector_enum)
    /\ UNCHANGED <<transformer_vars, constructor_inputs>>

LookupApiVersion_unconditional ==
    /\ pc = "api_version"
    /\ pc' = "address"
    /\ \E found \in ConfigLookups :
           /\ calls' = Append(calls, Called("find_config_by_key", found))
           /\ frame' = [frame EXCEPT !.connector_api_version =
                           Some(IF found.ok THEN Some(found.val.config) ELSE None)]
    /\ UNCHANGED <<router_data, request, transformer_vars, constructor_inputs>>

LookupApiVersion_retry ==
    /\ pc = "api_version"
    /\ IF Unwrap(frame.connector_enum) \in supported_connectors
       THEN \E found \in ConfigLookups :
                 /\ calls' = Append(calls, Called("find_config_by_key", found))
                 /\ pc' = IF found.ok \/ Len(calls) >= 1 THEN "address" ELSE "api_version"
                 /\ frame' = [frame EXCEPT !.connector_api_version =
                                 Some(IF found.ok THEN Some(found.val.config) ELSE None)]
       ELSE /\ calls' = calls
            /\ pc' = "address"
            /\ frame' = [frame EXCEPT !.connector_api_version = Some(None)]
    /\ UNCHANGED <<router_data, request, transformer_vars, constructor_inputs>>

\* the config lookup of the connector's API version; a failed lookup is no version
LookupApiVersion ==
    /\ pc = "api_version"
    /\ pc' = "address"
    /\ IF Unwrap(frame.connector_enum) \in supported_connectors
       THEN \E found \in ConfigLookups :
                 /\ calls' = Append(calls, Called("find_config_by_key", found))
                 /\ frame' = [frame EXCEPT !.connector_api_version =
                                 Some(IF found.ok THEN Some(found.val.config) ELSE None)]
       ELSE /\ calls' = calls
            /\ frame' = [frame EXCEPT !.connector_api_version = Some(None)]
    /\ UNCHANGED <<router_data, request, transformer_vars, constructor_inputs>>

DecryptBillingAddress_unchecked ==
    /\ pc = "address"
    /\ IF IsSome(payment_data.payment_method_info)
       THEN \E payment_method_billing \in AddressDecryptions :
                 /\ calls' = Append(calls, Called("decrypt_generic_data",
                                                  payment_method_billing))
                 /\ frame' = [frame EXCEPT !.unified_address =
                                 Some(unify_with_payment_data_billing(
                                        payment_data.address,
                                        IF payment_method_billing.ok
                                        THEN payment_method_billing.val ELSE None))]
                 /\ pc' = "meta_data"
                 /\ UNCHANGED router_data
       ELSE /\ calls' = calls
            /\ frame' = [frame EXCEPT !.unified_address = Some(payment_data.address)]
            /\ pc' = "meta_data"
            /\ UNCHANGED router_data
    /\ UNCHANGED <<request, transformer_vars, constructor_inputs>>

\* the unified address: the stored billing address of the payment method is
\* decrypted and merged into the aggregate's address
DecryptBillingAddress ==
    /\ pc = "address"
    /\ IF IsSome(payment_data.payment_method_info)
       THEN \E payment_method_billing \in AddressDecryptions :
                 /\ calls' = Append(calls, Called("decrypt_generic_data",
                                                  payment_method_billing))
                 /\ IF payment_method_billing.ok
                    THEN /\ frame' = [frame EXCEPT !.unified_address =
                                         Some(unify_with_payment_data_billing(
                                                payment_data.address,
                                                payment_method_billing.val))]
                         /\ pc' = "meta_data"
                         /\ UNCHANGED router_data
                    ELSE /\ router_data' = Some(payment_method_billing)
                         /\ pc' = "done"
                         /\ UNCHANGED frame
       ELSE /\ calls' = calls
            /\ frame' = [frame EXCEPT !.unified_address = Some(payment_data.address)]
            /\ pc' = "meta_data"
            /\ UNCHANGED router_data
    /\ UNCHANGED <<request, transformer_vars, constructor_inputs>>

\* connector_meta_data: the first fallible field of the RouterData literal
ResolveConnectorMetadata ==
    /\ pc = "meta_data"
    /\ LET meta == connector_meta_data(merchant_connector_account, merchant_recipient_data)
       IN  IF meta.ok
           THEN Goto("request", [frame EXCEPT !.connector_meta_data = Some(meta.val)])
           ELSE ReturnErr(meta)
    /\ UNCHANGED <<transformer_vars, constructor_inputs>>

\* request: T::try_from(additional_data)?, then Ok(router_data)
InvokeRequestBuilder ==
    /\ pc = "request"
    /\ LET built == request_try_from(flow_type, payment_data, connector_name)
       IN  /\ calls' = Append(calls, Called("try_from", built))
           /\ request' = Some([flow |-> flow_type, result |-> built])
           /\ router_data' =
                Some(IF built.ok
                     THEN Ok(RouterData(payment_data, customer, connector_name,
                                        merchant_connector_account, frame, built.val))
                     ELSE built)
           /\ pc' = "done"
           /\ UNCHANGED frame
    /\ UNCHANGED <<transformer_vars, constructor_inputs>>

\* the merchant connector accounts: enabled or not, credentials that parse or not
MerchantConnectorAccounts ==
    {[DefaultMerchantConnectorAccount EXCEPT
         !.disabled = d, !.connector_account_details = details, !.metadata = meta] :
        d \in BOOLEAN,
        details \in {JsonScalar, [api_key |-> "key_1"],
                     [auth_type |-> "HeaderKey", api_key |-> "key_1"]},
        meta \in {None, Some([account_name |-> "mca_meta_1"])}}

MerchantRecipientData ==
    {None, Some([account |-> "recipient_1", encodable |-> TRUE]),
     Some([account |-> "recipient_2", encodable |-> FALSE])}

PaymentMethodInfo == [payment_method_billing_address |-> "encrypted_1", status |-> "Active"]

InitConstructor ==
    /\ \E pm \in {None, Some("Card")},
          pm_info \in {None, Some(PaymentMethodInfo)},
          pmd \in {None, Some("Card")},
          txn_id \in {None, Some("txn_1")} :
            payment_data =
                [DefaultPaymentData EXCEPT
                    !.payment_attempt.payment_method = pm,
                    !.payment_attempt.connector_transaction_id = txn_id,
                    !.payment_method_info = pm_info,
                    !.payment_method_data = pmd]
    /\ customer = None
    /\ call = DefaultCall
    /\ connector_name \in {"stripe", "helcim", "unknown"}
    /\ capture_sync_response = DefaultCaptureSync
    /\ merchant_connector_account \in MerchantConnectorAccounts
    /\ merchant_recipient_data \in MerchantRecipientData
    /\ flow_type \in {"Authorize", "PSync", "Capture"}
    /\ NoOutputs

NextConstructor ==
    \/ CheckAccountEnabled
    \/ ParseConnectorAuthType
    \/ ResolvePaymentMethod
    \/ ParseConnectorName
    \/ LookupApiVersion
    \/ DecryptBillingAddress
    \/ ResolveConnectorMetadata
    \/ InvokeRequestBuilder

SpecConstructor == InitConstructor /\ [][NextConstructor]_vars

\* what the claims about the constructor speak of
Returned == router_data # None
CredentialsParse ==
    /\ merchant_connector_account.connector_account_details # JsonScalar
    /\ "auth_type" \in DOMAIN merchant_connector_account.connector_account_details
BuilderCalls == Len(SelectSeq(calls, LAMBDA c : c.fn = "try_from"))
ExternalCalls ==
    Len(SelectSeq(calls, LAMBDA c : c.fn \in {"find_config_by_key", "decrypt_generic_data"}))

\* C11: the constructor checks its preconditions in a fixed order and the first that
\* fails decides the error: a disabled account gives MerchantConnectorAccountDisabled
\* whatever else is wrong; otherwise credentials that do not parse give
\* InternalServerError; otherwise a missing payment method gives the missing-value
\* failure for payment_method_type; in all three no external call has been made.
C11_PreconditionOrder ==
    LET disabled == merchant_connector_account.disabled
        missing == payment_data.payment_attempt.payment_method = None
        Decides(e) == /\ ExternalCalls = 0
                      /\ BuilderCalls = 0
                      /\ pc = "done" => Returned
                      /\ Returned => router_data = Some(Err(e))
    IN  /\ disabled => Decides(MerchantConnectorAccountDisabled)
        /\ (~disabled /\ ~CredentialsParse) => Decides(InternalServerError)
        /\ (~disabled /\ CredentialsParse /\ missing) =>
               Decides(MissingRequiredField("payment_method_type"))

\* a disabled account whose credentials do not parse, on an attempt without method
C11_Witness ==
    /\ merchant_connector_account.disabled
    /\ ~CredentialsParse
    /\ payment_data.payment_attempt.payment_method = None
    /\ router_data = Some(Err(MerchantConnectorAccountDisabled))

\* C12: the request builder is invoked at most once, and only after the account
\* check, the credential parsing, the payment-method resolution, the address
\* decryption and merge and the connector-metadata resolution have succeeded; when
\* any step fails, the builder included, the constructor returns that failure and
\* no record.
C12_BuilderLast ==
    /\ BuilderCalls <= 1
    /\ BuilderCalls = 1 <=> request # None
    /\ request # None =>
        /\ calls[Len(calls)].fn = "try_from"
        /\ ~merchant_connector_account.disabled
        /\ CredentialsParse
        /\ frame.auth_type # None
        /\ frame.payment_method = payment_data.payment_attempt.payment_method
        /\ frame.payment_method # None
        /\ frame.unified_address # None
        /\ payment_data.payment_method_info # None =>
               \E i \in 1..Len(calls) : calls[i] = [fn |-> "decrypt_generic_data", ok |-> TRUE]
        /\ \A i \in 1..Len(calls) : calls[i].fn = "decrypt_generic_data" => calls[i].ok
        /\ frame.connector_meta_data # None
        /\ merchant_recipient_data # None => Unwrap(merchant_recipient_data).encodable
        /\ Returned
    /\ Returned =>
        /\ pc = "done"
        /\ Unwrap(router_data).ok <=> (request # None /\ Unwrap(request).result.ok)
        /\ Unwrap(router_data).ok =>
               Unwrap(router_data).val.request = Unwrap(request).result.val
        /\ (request # None /\ ~Unwrap(request).result.ok) =>
               router_data = Some(Unwrap(request).result)

\* a record built after a decryption and with recipient data
C12_Witness ==
    /\ Returned
    /\ Unwrap(router_data).ok
    /\ [i \in 1..Len(calls) |-> calls[i].fn]
           = <<"find_config_by_key", "decrypt_generic_data", "try_from">>
    /\ merchant_recipient_data # None
    /\ flow_type = "Capture"

\* C13: in a constructed record connector_meta_data is the serialized recipient data
\* whenever recipient data was supplied, the account's metadata being ignored, and
\* the account's metadata otherwise; recipient data that cannot be serialized is
\* InternalServerError and no record.
C13_RecipientMetadata ==
    Returned =>
        /\ Unwrap(router_data).ok =>
            Unwrap(router_data).val.connector_meta_data =
                (IF merchant_recipient_data # None
                 THEN Some([merchant_recipient_data |->
                                Unwrap(merchant_recipient_data).account])
                 ELSE merchant_connector_account.metadata)
        /\ (merchant_recipient_data # None /\ ~Unwrap(merchant_recipient_data).encodable) =>
            /\ ~Unwrap(router_data).ok
            /\ frame.unified_address # None => router_data = Some(Err(InternalServerError))

\* recipient data supplied next to account metadata
C13_Witness ==
    /\ Returned
    /\ Unwrap(router_data).ok
    /\ merchant_connector_account.metadata # None
    /\ merchant_recipient_data # None
    /\ Unwrap(router_data).val.connector_meta_data
           = Some([merchant_recipient_data |-> "recipient_1"])

\* the request the builder returned, and the fields parsed before its record is built
Built == Unwrap(request).result
BrowserInfoParses ==
    \/ TheAttempt.browser_info = None
    \/ Unwrap(TheAttempt.browser_info) # JsonScalar

-----------------------------------------------------------------------------
(* The connector transaction id over connectors, attempts and metadata.    *)

TransactionIdMetadata ==
    {None, Some(JsonScalar), Some([preauth_transaction_id |-> "meta_txn_1"]),
     Some([transaction_id |-> "meta_txn_2"]), Some([order_id |-> "order_1"])}

TransactionIdFlows == {"Capture", "Void", "IncrementalAuthorization"}

InitTransactionId ==
    /\ \E txn_id \in {None, Some("txn_1")},
          meta \in TransactionIdMetadata,
          browser_info \in {None, Some(JsonScalar)},
          incremental \in {None, Some([total_amount |-> 2, additional_amount |-> 1])} :
            payment_data =
                [DefaultPaymentData EXCEPT
                    !.incremental_authorization_details = incremental,
                    !.payment_attempt.connector_metadata = meta,
                    !.payment_attempt.browser_info = browser_info,
                    !.payment_attempt.connector_transaction_id = txn_id]
    /\ connector_name \in {"stripe", "helcim", "nexinets", "unknown"}
    /\ customer = None
    /\ call = DefaultCall
    /\ capture_sync_response = DefaultCaptureSync
    /\ DefaultConstructorInputs
    /\ NoOutputs

NextTransactionId == \E flow \in TransactionIdFlows : BuildRequest(flow)

SpecTransactionId == InitTransactionId /\ [][NextTransactionId]_vars

\* the builder reached the resolution of the transaction id
ResolutionReached ==
    /\ request # None
    /\ Unwrap(request).flow \in TransactionIdFlows
    /\ connector_name \in KnownConnectors
    /\ Unwrap(request).flow = "IncrementalAuthorization" =>
           payment_data.incremental_authorization_details # None
    /\ Unwrap(request).flow \in {"Capture", "Void"} => BrowserInfoParses

C20_MetadataOnlyWhenEmpty ==
    (/\ ResolutionReached
     /\ connector_name \in {"helcim", "nexinets"}
     /\ TheAttempt.connector_transaction_id # None) =>
        /\ Built.ok
        /\ Built.val.connector_transaction_id = Unwrap(TheAttempt.connector_transaction_id)

-----------------------------------------------------------------------------
(* The builders that parse the opaque blobs: browser info, order details.  *)

\* the elements an order-details array is made of: two that parse, one that does not
OrderDetailItems == {[product_name |-> "item_1"], [product_name |-> "item_2"], JsonScalar}

\* the order-details arrays of at most MaxOrderDetails elements
OrderDetailsArrays ==
    UNION {[1..n -> OrderDetailItems] : n \in 0..MaxOrderDetails}

BlobFlows == {"Authorize", "Capture", "Void", "Session", "SetupMandate",
              "CompleteAuthorize", "PreProcessing"}

InitBlobs ==
    /\ \E browser_info \in {None, Some(JsonScalar), Some(BrowserInfoJson)},
          order_details \in {None} \cup {Some(a) : a \in OrderDetailsArrays},
          pmd \in {None, Some("Card")},
          txn_id \in {None, Some("txn_1")} :
            payment_data =
                [DefaultPaymentData EXCEPT
                    !.payment_method_data = pmd,
                    !.payment_intent.order_details = order_details,
                    !.payment_attempt.browser_info = browser_info,
                    !.payment_attempt.connector_transaction_id = txn_id]
    /\ connector_name \in {"stripe", "unknown"}
    /\ customer = None
    /\ call = DefaultCall
    /\ capture_sync_response = DefaultCaptureSync
    /\ DefaultConstructorInputs
    /\ NoOutputs

NextBlobs == \E flow \in BlobFlows : BuildRequest(flow)

SpecBlobs == InitBlobs /\ [][NextBlobs]_vars

\* every element of the intent's order-details array parses (or there is no array)
OrderDetailsParse ==
    \/ TheIntent.order_details = None
    \/ \A i \in 1..Len(Unwrap(TheIntent.order_details)) :
           Unwrap(TheIntent.order_details)[i] # JsonScalar

\* the builder ran and no step before its browser-info decoding failed
BrowserInfoReached ==
    /\ request # None
    /\ Unwrap(request).flow \in {"Authorize", "Capture", "Void", "SetupMandate",
                                  "CompleteAuthorize", "PreProcessing"}
    /\ Unwrap(request).flow \in {"Capture", "Void"} => connector_name \in KnownConnectors
    /\ Unwrap(request).flow = "PreProcessing" => OrderDetailsParse

\* C21: in every request builder that forwards browser info (authorize, capture,
\* cancel, setup-mandate, complete-authorize, pre-processing), when no earlier step
\* of the builder failed, a browser-info blob that is present but does not decode
\* makes the builder fail with InvalidDataValue for browser_info and no record; an
\* absent blob is no failure of its own and gives an absent browser_info in the
\* record; a blob that decodes is carried decoded.
C21_BrowserInfoDecodeFailure ==
    BrowserInfoReached =>
        IF TheAttempt.browser_info = None
        THEN /\ Built # Err(InvalidDataValue("browser_info"))
             /\ Built.ok => Built.val.browser_info = None
        ELSE IF Unwrap(TheAttempt.browser_info) = JsonScalar
        THEN Built = Err(InvalidDataValue("browser_info"))
        ELSE /\ Built # Err(InvalidDataValue("browser_info"))
             /\ Built.ok => Built.val.browser_info = TheAttempt.browser_info

\* pre-processing whose order details parsed and whose browser info does not decode
C21_Witness ==
    /\ BrowserInfoReached
    /\ Unwrap(request).flow = "PreProcessing"
    /\ TheIntent.order_details # None
    /\ Len(Unwrap(TheIntent.order_details)) = 2
    /\ TheAttempt.browser_info = Some(JsonScalar)
    /\ Built = Err(InvalidDataValue("browser_info"))

\* the builder ran and no step before its order-details parsing failed
OrderDetailsReached ==
    /\ request # None
    /\ Unwrap(request).flow \in {"Authorize", "Session", "PreProcessing"}
    /\ TheIntent.order_details # None
    /\ Unwrap(request).flow = "Authorize" => BrowserInfoParses

\* C22: in the authorize, session and pre-processing builders order details are
\* all-or-nothing: when every element of the intent's array parses, the builder does
\* not fail on order details and a record it builds carries all of them in the same
\* order (the session builder, which has no later step, always builds it); when any
\* single element fails to parse, the builder fails with InvalidDataValue and no
\* record, never a shorter list.
C22_OrderDetailsAllOrNothing ==
    OrderDetailsReached =>
        IF OrderDetailsParse
        THEN /\ Built # Err(InvalidDataValue("OrderDetailsWithAmount"))
             /\ Built.ok => Built.val.order_details = TheIntent.order_details
             /\ Unwrap(request).flow = "Session" => Built.ok
        ELSE Built = Err(InvalidDataValue("OrderDetailsWithAmount"))

\* a two-element array whose second element does not parse, in the session builder
C22_Witness ==
    /\ OrderDetailsReached
    /\ Unwrap(request).flow = "Session"
    /\ Unwrap(TheIntent.order_details) = <<[product_name |-> "item_1"], JsonScalar>>
    /\ Built = Err(InvalidDataValue("OrderDetailsWithAmount"))

-----------------------------------------------------------------------------
(* The full payment response over operations, redirect data, header inputs *)
(* and amounts, next to the (intent, attempt) projection.                  *)

\* Option<bool>: is_latency_header_enabled
LatencyHeaderFlags == {None, Some(TRUE), Some(FALSE)}

InitSynthesis ==
    /\ \E meta \in {None, Some(JsonScalar)},
          ad \in {None, Some(JsonScalar), Some(RedirectFormJson)},
          source \in {None, Some("sdk")},
          pmd \in {None, Some(JsonScalar)},
          capturable \in 0..MaxAmount,
          captured \in {None} \cup {Some(a) : a \in 0..MaxAmount} :
            payment_data =
                [ResolverAggregate(Some("stripe"), Some("BankTransfer"), None, meta,
                                   "Processing", ad, None, <<"token_1">>)
                 EXCEPT !.payment_intent.payment_confirm_source = source,
                        !.payment_intent.amount_captured = captured,
                        !.payment_attempt.amount_capturable = capturable,
                        !.payment_attempt.payment_method_data = pmd]
    /\ \E op \in {"PaymentStatus", "PaymentStart"},
          code \in {None, Some(200)},
          latency \in {None, Some(5)},
          flag \in LatencyHeaderFlags :
            call = [operation |-> op, connector_http_status_code |-> code,
                    external_latency |-> latency, is_latency_header_enabled |-> flag]
    /\ customer = None
    /\ connector_name = "stripe"
    /\ capture_sync_response = DefaultCaptureSync
    /\ DefaultConstructorInputs
    /\ NoOutputs

NextSynthesis ==
    \/ GenerateResponse
    \/ ProjectResponse

SpecSynthesis == InitSynthesis /\ [][NextSynthesis]_vars

\* the header list of the response
ResponseHeaders == Unwrap(response).val.headers

\* C23: the header list of a successful full JSON payment response has exactly one
\* entry per present input and nothing else, in the order connector_http_status_code
\* (the status code as a decimal string), payment-confirm-source marker, latency
\* header; an absent input contributes no entry.
C23_HeaderList ==
    JsonResponded =>
        LET code == call.connector_http_status_code
            source == TheIntent.payment_confirm_source
            latency == call.external_latency
            Count(input) == IF input # None THEN 1 ELSE 0
        IN  /\ Len(ResponseHeaders) = Count(code) + Count(source) + Count(latency)
            /\ code # None =>
                   ResponseHeaders[1] = [key |-> "connector_http_status_code",
                                         value |-> <<"decimal", Unwrap(code)>>]
            /\ source # None =>
                   ResponseHeaders[Count(code) + 1] =
                       [key |-> "payment_confirm_source", value |-> Unwrap(source)]
            /\ latency # None =>
                   ResponseHeaders[Count(code) + Count(source) + 1] =
                       [key |-> "x-hs-latency", value |-> <<"decimal", Unwrap(latency)>>]

\* a status code and a latency without confirm source: two entries
C23_Witness ==
    /\ JsonResponded
    /\ call.connector_http_status_code = Some(200)
    /\ TheIntent.payment_confirm_source = None
    /\ call.external_latency = Some(5)
    /\ Len(ResponseHeaders) = 2
    /\ ResponseHeaders[2].key = "x-hs-latency"

\* the synthesis ran and the steps before the choice of the response path succeeded
PathChosen ==
    /\ response # None
    /\ TheAttempt.currency # None
    /\ TheAttempt.payment_method_data = None

C29_LatencyFlagIgnored ==
    response # None =>
        /\ \A other_flag \in LatencyHeaderFlags :
               payments_to_payments_response(
                   payment_data, customer, call.operation, BaseUrl,
                   call.connector_http_status_code, call.external_latency, other_flag)
               = Unwrap(response)
        /\ JsonResponded =>
               ((\E i \in 1..Len(ResponseHeaders) : ResponseHeaders[i].key = "x-hs-latency")
                <=> call.external_latency # None)

\* the flag is Some(false), a latency is supplied and the header is there
C29_Witness ==
    /\ JsonResponded
    /\ call.is_latency_header_enabled = Some(FALSE)
    /\ call.external_latency = Some(5)
    /\ \E i \in 1..Len(ResponseHeaders) : ResponseHeaders[i].key = "x-hs-latency"

\* C30: for the same intent and attempt, the (intent, attempt) projection reports
\* the amount_capturable the full payment response reports, namely the attempt's
\* amount_capturable.
C30_SameAmountCapturable ==
    (JsonResponded /\ projected_response # None) =>
        /\ Unwrap(projected_response).amount_capturable =
               Unwrap(response).val.body.amount_capturable
        /\ Unwrap(projected_response).amount_capturable = Some(TheAttempt.amount_capturable)

-----------------------------------------------------------------------------
(* The external calls of the constructor.                                  *)

\* the entries of the log that are calls of fn
CallsOf(fn) == SelectSeq(calls, LAMBDA c : c.fn = fn)

\* the constructor got past the statement that resolves the API version
ApiVersionResolved == frame.connector_api_version # None

\* C24: the connector-API-version config is looked up only when the connector is in
\* the multi-API-version set, and then once; a lookup that finds no value leaves the
\* record's connector_api_version empty and is not a failure of the construction,
\* which fails only if a later step fails; for a connector outside the set the field
\* is empty without any lookup.
C24_ApiVersionLookup ==
    /\ CallsOf("find_config_by_key") # <<>> =>
           (connector_name \in supported_connectors /\ ApiVersionResolved)
    /\ ApiVersionResolved =>
           IF connector_name \in supported_connectors
           THEN /\ Len(CallsOf("find_config_by_key")) = 1
                /\ ~CallsOf("find_config_by_key")[1].ok =>
                       /\ frame.connector_api_version = Some(None)
                       /\ pc = "address" => ~Returned
                       /\ (Returned /\ ~Unwrap(router_data).ok) =>
                              \/ CallsOf("decrypt_generic_data")
                                     = <<[fn |-> "decrypt_generic_data", ok |-> FALSE]>>
                              \/ /\ merchant_recipient_data # None
                                 /\ ~Unwrap(merchant_recipient_data).encodable
                              \/ /\ request # None
                                 /\ ~Unwrap(request).result.ok
                /\ CallsOf("find_config_by_key")[1].ok =>
                       frame.connector_api_version = Some(Some("api_version_2"))
           ELSE /\ CallsOf("find_config_by_key") = <<>>
                /\ frame.connector_api_version = Some(None)
    /\ (Returned /\ Unwrap(router_data).ok) =>
           Unwrap(router_data).val.connector_api_version = Unwrap(frame.connector_api_version)

\* a record built after a lookup that found no value
C24_Witness ==
    /\ Returned
    /\ Unwrap(router_data).ok
    /\ CallsOf("find_config_by_key") = <<[fn |-> "find_config_by_key", ok |-> FALSE]>>
    /\ Unwrap(router_data).val.connector_api_version = None

\* a failed call of fn ended the construction at once: no record, no builder run
FailsImmediately(fn) ==
    (\E i \in 1..Len(calls) : calls[i].fn = fn /\ ~calls[i].ok) =>
        /\ calls[Len(calls)].fn = fn
        /\ pc = "done"
        /\ Returned
        /\ ~Unwrap(router_data).ok
        /\ request = None

\* each external call is awaited at most once
AwaitedOnce ==
    /\ Len(CallsOf("find_config_by_key")) <= 1
    /\ Len(CallsOf("decrypt_generic_data")) <= 1

\* C25 as stated: each external call of the constructor (the config lookup and the
\* billing-address decryption) is awaited at most once, with no retry, and a failure
\* of any of them makes the construction fail immediately with no record and without
\* invoking the request builder.
C25_ExternalFailurePropagates ==
    /\ AwaitedOnce
    /\ FailsImmediately("find_config_by_key")
    /\ FailsImmediately("decrypt_generic_data")

\* C25 as amended: each external call of the constructor is awaited at most once,
\* with no retry; a failure of the billing-address decryption makes the construction
\* fail immediately with no record and without invoking the request builder; a
\* failure of the config lookup is not propagated: the construction goes on with an
\* empty connector_api_version.
C25_ExternalFailurePropagatesAmended ==
    /\ AwaitedOnce
    /\ FailsImmediately("decrypt_generic_data")
    /\ (\E i \in 1..Len(calls) : calls[i].fn = "find_config_by_key" /\ ~calls[i].ok) =>
           /\ frame.connector_api_version = Some(None)
           /\ pc # "api_version"
           /\ pc = "address" => ~Returned

\* the lookup failed and was tolerated, then the decryption failed and the
\* construction returned its error
C25_Witness ==
    /\ [i \in 1..Len(calls) |-> calls[i].ok] = <<FALSE, FALSE>>
    /\ calls[2].fn = "decrypt_generic_data"
    /\ router_data = Some(Err(InternalServerError))
    /\ request = None

-----------------------------------------------------------------------------
(* The mandate default of the authorize builder.                           *)

\* the authorize builder ran and nothing but payment_method_data can fail in it
AuthorizeReached ==
    /\ request # None
    /\ Unwrap(request).flow = "Authorize"
    /\ BrowserInfoParses
    /\ payment_data.authentication = None

\* C28: in the authorize builder, when no payment-method-data is supplied but a
\* mandate id is present, the builder succeeds with payment_method_data =
\* MandatePayment; the missing-required-value failure for payment_method_data occurs
\* exactly when both the payment-method-data and the mandate id are absent.
C28_MandateDefault ==
    AuthorizeReached =>
        /\ (payment_data.payment_method_data = None /\ payment_data.mandate_id # None) =>
               /\ Built.ok
               /\ Built.val.payment_method_data = "MandatePayment"
        /\ Built = Err(MissingRequiredField("payment_method_data")) <=>
               (payment_data.payment_method_data = None /\ payment_data.mandate_id = None)
        /\ payment_data.payment_method_data # None =>
               /\ Built.ok
               /\ Built.val.payment_method_data = Unwrap(payment_data.payment_method_data)

\* authorize with a mandate id and no payment-method-data
C28_Witness ==
    /\ AuthorizeReached
    /\ payment_data.payment_method_data = None
    /\ payment_data.mandate_id = Some("man_1")
    /\ Built.ok
    /\ Built.val.payment_method_data = "MandatePayment"

-----------------------------------------------------------------------------
(* Constructions in flight together over one aggregate.                    *)

\* a future of construct_payment_router_data: its own PaymentData (the argument is
\* taken by value), what the store and the decryption will answer it, its position,
\* its locals, its calls and what it returned
NewRun(pd, flow, config, billing) ==
    [payment_data |-> pd, flow |-> flow, answers |-> [config |-> config, billing |-> billing],
     pc |-> "account_enabled", frame |-> EmptyFrame, calls |-> <<>>, router_data |-> None]

RunReturn(run, result) == [run EXCEPT !.pc = "done", !.router_data = Some(result)]
RunGoto(run, next_pc, locals) == [run EXCEPT !.pc = next_pc, !.frame = locals]

\* the statement of construct_payment_router_data the future runs next, on its own
\* state; the account, the recipient data and the connector id are read-only
construct_step(run, mca, recipient_data, connector_id, cust) ==
    LET locals == run.frame
        pd == run.payment_data
    IN  CASE run.pc = "account_enabled" ->
                 IF mca.disabled THEN RunReturn(run, Err(MerchantConnectorAccountDisabled))
                 ELSE RunGoto(run, "auth_type", locals)
          [] run.pc = "auth_type" ->
                 LET auth_type == parse_ConnectorAuthType(mca.connector_account_details)
                 IN  IF auth_type.ok
                     THEN RunGoto(run, "payment_method",
                                  [locals EXCEPT !.auth_type = Some(auth_type.val)])
                     ELSE RunReturn(run, Err(InternalServerError))
          [] run.pc = "payment_method" ->
                 LET payment_method == OptOr(pd.payment_attempt.payment_method,
                                             pd.payment_attempt.payment_method)
                 IN  IF IsSome(payment_method)
                     THEN RunGoto(run, "connector_enum",
                                  [locals EXCEPT !.payment_method = payment_method])
                     ELSE RunReturn(run, Err(MissingRequiredField("payment_method_type")))
          [] run.pc = "connector_enum" ->
                 LET connector_enum == Connector_from_str(connector_id)
                 IN  IF connector_enum.ok
                     THEN RunGoto(run, "api_version",
                                  [locals EXCEPT !.connector_enum = Some(connector_enum.val)])
                     ELSE RunReturn(run, connector_enum)
          [] run.pc = "api_version" ->
                 IF Unwrap(locals.connector_enum) \in supported_connectors
                 THEN LET found == run.answers.config
                      IN  [run EXCEPT
                              !.pc = "address",
                              !.calls = Append(@, Called("find_config_by_key", found)),
                              !.frame.connector_api_version =
                                  Some(IF found.ok THEN Some(found.val.config) ELSE None)]
                 ELSE RunGoto(run, "address",
                              [locals EXCEPT !.connector_api_version = Some(None)])
          [] run.pc = "address" ->
                 IF IsSome(pd.payment_method_info)
                 THEN LET payment_method_billing == run.answers.billing
                      IN  IF payment_method_billing.ok
                          THEN [run EXCEPT
                                  !.pc = "meta_data",
                                  !.calls = Append(@, Called("decrypt_generic_data",
                                                             payment_method_billing)),
                                  !.frame.unified_address =
                                      Some(unify_with_payment_data_billing(
                                             pd.address, payment_method_billing.val))]
                          ELSE [run EXCEPT
                                  !.pc = "done",
                                  !.calls = Append(@, Called("decrypt_generic_data",
                                                             payment_method_billing)),
                                  !.router_data = Some(payment_method_billing)]
                 ELSE RunGoto(run, "meta_data",
                              [locals EXCEPT !.unified_address = Some(pd.address)])
          [] run.pc = "meta_data" ->
                 LET meta == connector_meta_data(mca, recipient_data)
                 IN  IF meta.ok
                     THEN RunGoto(run, "request",
                                  [locals EXCEPT !.connector_meta_data = Some(meta.val)])
                     ELSE RunReturn(run, meta)
          [] run.pc = "request" ->
                 LET built == request_try_from(run.flow, pd, connector_id)
                 IN  [run EXCEPT
                         !.pc = "done",
                         !.calls = Append(@, Called("try_from", built)),
                         !.router_data =
                             Some(IF built.ok
                                  THEN Ok(RouterData(pd, cust, connector_id, mca, locals,
                                                     built.val))
                                  ELSE built)]
          [] OTHER -> run

\* the construction run alone, from its first statement to its return
RECURSIVE construct_payment_router_data(_, _, _, _, _)
construct_payment_router_data(run, mca, recipient_data, connector_id, cust) ==
    IF run.pc = "done" THEN run.router_data
    ELSE construct_payment_router_data(
             construct_step(run, mca, recipient_data, connector_id, cust),
             mca, recipient_data, connector_id, cust)

ConstructionStep_in_place(i) ==
    /\ runs[i].pc # "done"
    /\ LET stepped == construct_step([runs[i] EXCEPT !.payment_data = payment_data],
                                     merchant_connector_account, merchant_recipient_data,
                                     connector_name, customer)
       IN  /\ runs' = [runs EXCEPT ![i] = stepped]
           /\ payment_data' =
                  IF stepped.frame.unified_address # None
                  THEN [payment_data EXCEPT !.address = Unwrap(stepped.frame.unified_address)]
                  ELSE payment_data
    /\ UNCHANGED <<customer, call, response, session_response, verify_response,
                   PAYMENT_OPS_COUNT, connector_name, request, capture_sync_response,
                   capture_update, projected_response, constructor_vars>>

\* one future runs up to its next await point or statement; the others wait
ConstructionStep(i) ==
    /\ runs[i].pc # "done"
    /\ runs' = [runs EXCEPT ![i] = construct_step(runs[i], merchant_connector_account,
                                                  merchant_recipient_data, connector_name,
                                                  customer)]
    /\ UNCHANGED <<payment_data, customer, call, response, session_response,
                   verify_response, PAYMENT_OPS_COUNT, connector_name, request,
                   capture_sync_response, capture_update, projected_response,
                   constructor_vars>>

\* two constructions handed clones of one aggregate, for two flows
InitInterleaved ==
    /\ \E pm_info \in {None, Some(PaymentMethodInfo)},
          pmd \in {None, Some("Card")} :
            payment_data = [DefaultPaymentData EXCEPT !.payment_method_info = pm_info,
                                                      !.payment_method_data = pmd]
    /\ \E config_1 \in ConfigLookups, config_2 \in ConfigLookups,
          billing_1 \in AddressDecryptions, billing_2 \in AddressDecryptions :
            runs = <<NewRun(payment_data, "Authorize", config_1, billing_1),
                     NewRun(payment_data, "PSync", config_2, billing_2)>>
    /\ customer = None
    /\ call = DefaultCall
    /\ connector_name \in {"stripe", "unknown"}
    /\ capture_sync_response = DefaultCaptureSync
    /\ merchant_connector_account = DefaultMerchantConnectorAccount
    /\ merchant_recipient_data \in MerchantRecipientData
    /\ flow_type = "Authorize"
    /\ response = None
    /\ session_response = None
    /\ verify_response = None
    /\ PAYMENT_OPS_COUNT = 0
    /\ request = None
    /\ capture_update = None
    /\ pc = "account_enabled"
    /\ frame = EmptyFrame
    /\ calls = <<>>
    /\ router_data = None
    /\ projected_response = None

NextInterleaved == \E i \in DOMAIN runs : ConstructionStep(i)

SpecInterleaved == InitInterleaved /\ [][NextInterleaved]_vars

\* C26: two constructions over the same aggregate, interleaved at their await
\* points in any order, each return what the construction returns run alone on that
\* aggregate with the same answers of the store and the decryption; each works on
\* its own clone, which stays equal to the caller's aggregate: nothing a construction
\* writes is seen by the other or by the caller.
C26_InterleavingIndependent ==
    \A i \in DOMAIN runs :
        /\ runs[i].payment_data = payment_data
        /\ runs[i].pc = "done" =>
               runs[i].router_data =
                   construct_payment_router_data(
                       NewRun(payment_data, runs[i].flow, runs[i].answers.config,
                              runs[i].answers.billing),
                       merchant_connector_account, merchant_recipient_data,
                       connector_name, customer)

\* the second construction returned its record, after its lookup and its
\* decryption, while the first waits at its decryption with another answer to come
C26_Witness ==
    /\ runs[1].pc = "address"
    /\ Len(runs[1].calls) = 1
    /\ runs[2].pc = "done"
    /\ Unwrap(runs[2].router_data).ok
    /\ Len(runs[2].calls) = 3
    /\ runs[1].answers.billing # runs[2].answers.billing

====
